---- MODULE Spec2Model ----
(***************************************************************************)
(* Verification model of the storage-and-concurrency core of               *)
(* wrlcke/bustub-private: the record lock manager (wound-wait), the        *)
(* buffer pool manager with its disk scheduler and LRU-K replacer, and     *)
(* the B+ tree index.  Each subsystem has its own specification over its   *)
(* own variables; the variables of the other subsystems stay at their      *)
(* initial value.                                                          *)
(***************************************************************************)
EXTENDS Integers, Sequences, FiniteSets, TLC

VARIABLES
  \* ---- lock manager (src/src/concurrency/lock_manager.cpp) ----
  lock_table,    \* rid -> request_queue_ : Seq of [txn_id_, lock_mode_, granted_]
  upgrading,     \* rid -> LockRequestQueue::upgrading_
  txn_state,     \* txn -> TransactionState
  shared_set,    \* txn -> shared lock set (set of rids)
  excl_set,      \* txn -> exclusive lock set (set of rids)
  isolation,     \* txn -> IsolationLevel
  lm_pc,         \* txn -> where the txn's thread is inside a lock-manager call
  latch,         \* LockManager::latch_ : TRUE while the mutex word is locked
  lm_calls,      \* number of Lock* calls made so far
  \* ---- buffer pool manager (src/src/buffer/buffer_pool_manager.cpp) ----
  pages,         \* frame -> Page : [page_id_, pin_count_, is_dirty_, data_]
  page_table,    \* page id -> frame, NoFrame when the page is not resident
  free_list,     \* BufferPoolManager::free_list_
  next_page_id,  \* BufferPoolManager::next_page_id_
  replacer,      \* the LRUKReplacer
  disk_requests, \* DiskScheduler::disk_requests_ : page id -> DiskRequest
  task_queue,    \* DiskScheduler::task_queue_ : page ids of queued write tasks
  worker,        \* thread-pool worker -> the task it popped and has not run yet
  disk,          \* the DiskManager's file : page id -> data
  durable,       \* what a page must hold : set when it is unpinned dirty
  flushed,       \* the pages flushed since a client last wrote them
  refetched,     \* the pages read back in since a client last wrote them
  \* ---- B+ tree (src/src/storage/index/b_plus_tree.cpp) ----
  tree_pages,        \* page id -> the index page stored under that id
  root_page_id_,     \* BPlusTreeHeaderPage::root_page_id_
  tree_depth_,       \* BPlusTreeHeaderPage::tree_depth_
  tree_next_page_id, \* the id AllocatePage hands out next
  leaf_max_size_,    \* BPlusTree::leaf_max_size_
  internal_max_size_,\* BPlusTree::internal_max_size_
  tree_status,       \* "ok", "hung" (a call that never returns), "fault" (a deleted page was read)
  tree_map,          \* key -> value of the latest successful Insert not followed by a Remove
  tree_call,         \* the last call made on the tree and what it returned
  tree_ops,          \* number of calls made on the tree so far
  tree_threads,      \* thread -> where it is inside a call on the tree, and its locals
  tree_latches,      \* page id -> Page::rwlatch_ : [readers, writer]
  \* ---- client threads of the buffer pool (src/test/buffer/buffer_pool_manager_test.cpp) ----
  bpm_threads        \* thread -> where it is in NewPageHelper, and the locals of its NewPage call

lmState == <<lock_table, upgrading, txn_state, shared_set, excl_set, isolation, lm_pc, latch>>

lmVars == <<lmState, lm_calls>>

bpmVars == <<pages, page_table, free_list, next_page_id, replacer, disk_requests,
             task_queue, worker, disk, durable, flushed, refetched>>

\* what no operation of the tree assigns: the page sizes, and the header's
\* tree_depth_, which no line of b_plus_tree.cpp writes
treeConfig == <<leaf_max_size_, internal_max_size_, tree_depth_>>

treeVars == <<tree_pages, root_page_id_, tree_next_page_id, treeConfig,
              tree_status, tree_map, tree_call, tree_ops, tree_threads, tree_latches>>

poolVars == <<bpmVars, bpm_threads>>

\* the client threads of the concurrent specifications
NumThreads == 2

Threads == 1 .. NumThreads

NoThread == 0

vars == <<lmVars, poolVars, treeVars>>

(***************************************************************************)
(* Generic sequence helpers                                                *)
(***************************************************************************)
RemoveAt(s, i) == SubSeq(s, 1, i - 1) \o SubSeq(s, i + 1, Len(s))

InsertAt(s, i, e) == SubSeq(s, 1, i - 1) \o <<e>> \o SubSeq(s, i, Len(s))

SetToSeqMin(S) == CHOOSE x \in S : \A y \in S : x <= y

(***************************************************************************)
(* LOCK MANAGER                                                            *)
(***************************************************************************)
NumTxns == 3

NumRids == 2

MaxCalls == 6

Txns == 1..NumTxns

Rids == 1..NumRids

INVALID_TXN_ID == -1

\* The isolation levels the transactions of the model run under.
IsolationChoices ==
  { [t \in Txns |-> "REPEATABLE_READ"],
    [t \in Txns |-> IF t = 1 THEN "READ_UNCOMMITTED" ELSE "READ_COMMITTED"] }

LockRequest(txn, mode) == [txn_id_ |-> txn, lock_mode_ |-> mode, granted_ |-> FALSE]

\* LockRequestQueue::Find : position of the txn's request, Len+1 for End()
Find(q, txn) ==
  IF \E i \in 1..Len(q) : q[i].txn_id_ = txn
  THEN SetToSeqMin({i \in 1..Len(q) : q[i].txn_id_ = txn})
  ELSE Len(q) + 1

\* LockRequestQueue::Push
Push(q, txn, mode) == Append(q, LockRequest(txn, mode))

\* LockRequestQueue::Erase
Erase(q, i) == RemoveAt(q, i)

\* LockRequestQueue::FirstWaiting : position of the first request not granted
FirstWaiting(q) ==
  IF \E i \in 1..Len(q) : ~q[i].granted_
  THEN SetToSeqMin({i \in 1..Len(q) : ~q[i].granted_})
  ELSE Len(q) + 1

\* LockRequestQueue::Move : the request at src is erased and re-inserted
\* before the element dest pointed at (src # dest).
Move(q, src, dest) ==
  LET request == q[src]
      erased  == RemoveAt(q, src)
      d       == IF dest > src THEN dest - 1 ELSE dest
  IN  InsertAt(erased, d, request)

IsSharedLocked(t, r) == r \in shared_set[t]

IsExclusiveLocked(t, r) == r \in excl_set[t]

\* LockManager::HasConflict
HasConflict(mode, other_mode) == mode = "EXCLUSIVE" \/ other_mode = "EXCLUSIVE"

\* LockManager::NeedWait
NeedWait(q, txn, mode) ==
  IF mode = "SHARED"
  THEN LET me == Find(q, txn)
       IN  \E i \in 1..Len(q) :
             /\ q[i].lock_mode_ = "EXCLUSIVE"
             /\ i <= me
             /\ \A j \in 1..(i - 1) : q[j].txn_id_ # txn
  ELSE q # <<>> /\ q[1].txn_id_ # txn

\* LockManager::AbortYoung, the scan: the requests ahead of the txn's own
\* request that it wounds (younger and conflicting).
Wounded(q, txn, mode) ==
  {i \in 1..(Find(q, txn) - 1) :
       txn < q[i].txn_id_ /\ HasConflict(mode, q[i].lock_mode_)}

\* An AbortYoung that erases nothing
AbortYoungQueueKeep(q, txn, mode) == q

\* LockManager::AbortYoung, the queue after the wounded requests are erased
AbortYoungQueue(q, txn, mode) ==
  LET w == Wounded(q, txn, mode)
      F[i \in 0..Len(q)] ==
        IF i = 0 THEN <<>>
        ELSE IF i \in w THEN F[i - 1] ELSE Append(F[i - 1], q[i])
  IN  F[Len(q)]

\* The transactions AbortYoung marks ABORTED
AbortYoungKilled(q, txn, mode) == {q[i].txn_id_ : i \in Wounded(q, txn, mode)}

Idle == [at |-> "idle", op |-> "-", rid |-> 0, via |-> FALSE]

At(t, where) == lm_pc[t].at = where

\* cv_.notify_all() on rid r: every thread blocked in cv_.wait of that queue
\* becomes runnable and has to re-acquire latch_.
NotifyAll(pc, r) ==
  [t \in Txns |-> IF pc[t].at = "waiting" /\ pc[t].rid = r
                  THEN [pc[t] EXCEPT !.at = "woken"] ELSE pc[t]]

\* Where a call that leaves LockUpgrade goes: back to the caller, or, when
\* LockUpgrade was entered from LockExclusive (lock_manager.cpp:63-64), to the
\* destructor of LockExclusive's unique_lock, which unlocks latch_ again.
Leave(via) == IF via THEN [at |-> "stray", op |-> "-", rid |-> 0, via |-> FALSE] ELSE Idle

\* The first evaluation of the wait loop's condition after a request was
\* queued: the thread goes on to wait or to grant.
Decide(q, t, r, op, mode, via) ==
  [at |-> IF NeedWait(q, t, mode) THEN "towait" ELSE "granting",
   op |-> op, rid |-> r, via |-> via]

\* Lines 40-44 / 74-78: Push, AbortYoung and the first NeedWait.
Enqueue(t, r, op, mode) ==
  \E q1 \in {Push(lock_table[r], t, mode)} :
  \E q2 \in {AbortYoungQueue(q1, t, mode)} :
  \E killed \in {AbortYoungKilled(q1, t, mode)} :
      /\ lock_table' = [lock_table EXCEPT ![r] = q2]
      /\ txn_state' = [x \in Txns |-> IF x \in killed THEN "ABORTED" ELSE txn_state[x]]
      /\ lm_pc' = [(IF killed # {} THEN NotifyAll(lm_pc, r) ELSE lm_pc)
                     EXCEPT ![t] = Decide(q2, t, r, op, mode, FALSE)]
      /\ latch' = TRUE
      /\ UNCHANGED <<upgrading, shared_set, excl_set, isolation>>

\* LockManager::LockShared, from the call to the first wait or return
LockShared(t, r) ==
  /\ At(t, "idle") /\ ~latch
  /\ IF IsSharedLocked(t, r) \/ IsExclusiveLocked(t, r) THEN UNCHANGED lmState
     ELSE IF txn_state[t] = "ABORTED" THEN UNCHANGED lmState
     ELSE IF isolation[t] = "READ_UNCOMMITTED" \/ txn_state[t] = "SHRINKING"
     THEN /\ txn_state' = [txn_state EXCEPT ![t] = "ABORTED"]
          /\ UNCHANGED <<lock_table, upgrading, shared_set, excl_set, isolation, lm_pc, latch>>
     ELSE Enqueue(t, r, "LS", "SHARED")

\* LockManager::LockExclusive, from the call to the first wait or return
LockExclusive(t, r) ==
  /\ At(t, "idle") /\ ~latch
  /\ IF IsExclusiveLocked(t, r) THEN UNCHANGED lmState
     ELSE IF IsSharedLocked(t, r)
     THEN /\ lm_pc' = [lm_pc EXCEPT ![t] = [at |-> "lx_gap", op |-> "LX", rid |-> r, via |-> TRUE]]
          /\ UNCHANGED <<lock_table, upgrading, txn_state, shared_set, excl_set, isolation, latch>>
     ELSE IF txn_state[t] = "ABORTED" THEN UNCHANGED lmState
     ELSE IF txn_state[t] = "SHRINKING"
     THEN /\ txn_state' = [txn_state EXCEPT ![t] = "ABORTED"]
          /\ UNCHANGED <<lock_table, upgrading, shared_set, excl_set, isolation, lm_pc, latch>>
     ELSE Enqueue(t, r, "LX", "EXCLUSIVE")

\* LockManager::LockUpgrade, from taking latch_ to the first wait or return
UpgradeBody(t, r, via) ==
  /\ ~latch
  /\ IF IsExclusiveLocked(t, r) \/ ~IsSharedLocked(t, r) \/ txn_state[t] = "ABORTED"
     THEN /\ lm_pc' = [lm_pc EXCEPT ![t] = Leave(via)]
          /\ UNCHANGED <<lock_table, upgrading, txn_state, shared_set, excl_set, isolation, latch>>
     ELSE IF txn_state[t] = "SHRINKING"
     THEN /\ txn_state' = [txn_state EXCEPT ![t] = "ABORTED"]
          /\ lm_pc' = [lm_pc EXCEPT ![t] = Leave(via)]
          /\ UNCHANGED <<lock_table, upgrading, shared_set, excl_set, isolation, latch>>
     ELSE IF upgrading[r] # INVALID_TXN_ID
     THEN /\ lm_pc' = [lm_pc EXCEPT ![t] = Leave(via)]
          /\ UNCHANGED <<lock_table, upgrading, txn_state, shared_set, excl_set, isolation, latch>>
     ELSE \E q1 \in {Move(lock_table[r], Find(lock_table[r], t), FirstWaiting(lock_table[r]))} :
          \E q2 \in {[q1 EXCEPT ![Find(q1, t)].lock_mode_ = "EXCLUSIVE",
                                ![Find(q1, t)].granted_ = FALSE]} :
          \E q3 \in {AbortYoungQueue(q2, t, "EXCLUSIVE")} :
          \E killed \in {AbortYoungKilled(q2, t, "EXCLUSIVE")} :
              /\ upgrading' = [upgrading EXCEPT ![r] = t]
              /\ lock_table' = [lock_table EXCEPT ![r] = q3]
              /\ shared_set' = [shared_set EXCEPT ![t] = @ \ {r}]
              /\ txn_state' = [x \in Txns |-> IF x \in killed THEN "ABORTED" ELSE txn_state[x]]
              /\ lm_pc' = [(IF killed # {} THEN NotifyAll(lm_pc, r) ELSE lm_pc)
                             EXCEPT ![t] = Decide(q3, t, r, "LU", "EXCLUSIVE", via)]
              /\ latch' = TRUE
              /\ UNCHANGED <<excl_set, isolation>>

LockUpgrade(t, r) == At(t, "idle") /\ UpgradeBody(t, r, FALSE)

\* LockExclusive line 64: the call of LockUpgrade after latch_.unlock()
LockExclusiveUpgrade(t) ==
  \E r \in Rids : At(t, "lx_gap") /\ lm_pc[t].rid = r /\ UpgradeBody(t, r, TRUE)

\* Lines 45-46, 79-80, 120-121: cv_.wait(latch) releases latch_ and blocks
Wait(t) ==
  /\ At(t, "towait")
  /\ lm_pc' = [lm_pc EXCEPT ![t].at = "waiting"]
  /\ latch' = FALSE
  /\ UNCHANGED <<lock_table, upgrading, txn_state, shared_set, excl_set, isolation>>

\* std::condition_variable::wait may return without a notification
SpuriousWakeup(t) ==
  /\ At(t, "waiting")
  /\ lm_pc' = [lm_pc EXCEPT ![t].at = "woken"]
  /\ UNCHANGED <<lock_table, upgrading, txn_state, shared_set, excl_set, isolation, latch>>

\* The woken thread re-acquires latch_, throws DEADLOCK when it was wounded,
\* and evaluates NeedWait again otherwise.
Wakeup(t) ==
  /\ At(t, "woken") /\ ~latch
  /\ IF txn_state[t] = "ABORTED"
     THEN /\ lm_pc' = [lm_pc EXCEPT ![t] = Leave(lm_pc[t].via)]
          /\ UNCHANGED latch
     ELSE /\ lm_pc' = [lm_pc EXCEPT ![t] =
                 Decide(lock_table[lm_pc[t].rid], t, lm_pc[t].rid, lm_pc[t].op,
                        IF lm_pc[t].op = "LS" THEN "SHARED" ELSE "EXCLUSIVE", lm_pc[t].via)]
          /\ latch' = TRUE
  /\ UNCHANGED <<lock_table, upgrading, txn_state, shared_set, excl_set, isolation>>

\* Lines 51-53, 85-87, 126-129: the request is marked granted and the rid
\* enters the lock set; the call returns and releases latch_.  A request that
\* was erased in between (possible only once latch_ no longer excludes) is
\* freed memory: the write of granted_ is lost.
Grant(t) ==
  LET r   == lm_pc[t].rid
      q   == lock_table[r]
      pos == Find(q, t)
  IN  /\ At(t, "granting")
      /\ lock_table' = IF pos <= Len(q) THEN [lock_table EXCEPT ![r][pos].granted_ = TRUE]
                       ELSE lock_table
      /\ IF lm_pc[t].op = "LS"
         THEN /\ shared_set' = [shared_set EXCEPT ![t] = @ \cup {r}]
              /\ UNCHANGED <<excl_set, upgrading>>
         ELSE /\ excl_set' = [excl_set EXCEPT ![t] = @ \cup {r}]
              /\ upgrading' = IF lm_pc[t].op = "LU"
                              THEN [upgrading EXCEPT ![r] = INVALID_TXN_ID] ELSE upgrading
              /\ UNCHANGED shared_set
      /\ lm_pc' = [lm_pc EXCEPT ![t] = Leave(lm_pc[t].via)]
      /\ latch' = FALSE
      /\ UNCHANGED <<txn_state, isolation>>

\* The unique_lock of LockExclusive still owns latch_ after line 63 unlocked
\* the mutex directly: its destructor unlocks latch_ a second time, whoever
\* holds it by then.
StrayUnlock(t) ==
  /\ At(t, "stray")
  /\ lm_pc' = [lm_pc EXCEPT ![t] = Idle]
  /\ latch' = FALSE
  /\ UNCHANGED <<lock_table, upgrading, txn_state, shared_set, excl_set, isolation>>

\* LockManager::Unlock
Unlock(t, r) ==
  /\ At(t, "idle") /\ ~latch
  /\ IF ~IsSharedLocked(t, r) /\ ~IsExclusiveLocked(t, r) THEN UNCHANGED lmState
     ELSE LET q   == lock_table[r]
              pos == Find(q, t)
          IN  /\ txn_state' = IF isolation[t] = "REPEATABLE_READ" /\ txn_state[t] = "GROWING"
                              THEN [txn_state EXCEPT ![t] = "SHRINKING"] ELSE txn_state
              /\ lock_table' = IF pos <= Len(q) THEN [lock_table EXCEPT ![r] = Erase(q, pos)]
                               ELSE lock_table
              /\ shared_set' = [shared_set EXCEPT ![t] = @ \ {r}]
              /\ excl_set' = [excl_set EXCEPT ![t] = @ \ {r}]
              /\ lm_pc' = NotifyAll(lm_pc, r)
              /\ UNCHANGED <<upgrading, isolation, latch>>

\* LockManager::LockManager, with the isolation levels the transactions run under
StartLM(levels) ==
  /\ lock_table = [r \in Rids |-> <<>>]
  /\ upgrading = [r \in Rids |-> INVALID_TXN_ID]
  /\ txn_state = [t \in Txns |-> "GROWING"]
  /\ shared_set = [t \in Txns |-> {}]
  /\ excl_set = [t \in Txns |-> {}]
  /\ isolation \in levels
  /\ lm_pc = [t \in Txns |-> Idle]
  /\ latch = FALSE
  /\ lm_calls = 0

Call(A) ==
  lm_calls < MaxCalls /\ A /\ lm_calls' = lm_calls + 1 /\ UNCHANGED <<poolVars, treeVars>>

Step(A) == A /\ UNCHANGED lm_calls /\ UNCHANGED <<poolVars, treeVars>>

NextLM ==
  \/ \E t \in Txns, r \in Rids : Call(LockShared(t, r))
  \/ \E t \in Txns, r \in Rids : Call(LockExclusive(t, r))
  \/ \E t \in Txns, r \in Rids : Call(LockUpgrade(t, r))
  \/ \E t \in Txns, r \in Rids : Step(Unlock(t, r))
  \/ \E t \in Txns : Step(LockExclusiveUpgrade(t))
  \/ \E t \in Txns : Step(Wait(t))
  \/ \E t \in Txns : Step(SpuriousWakeup(t))
  \/ \E t \in Txns : Step(Wakeup(t))
  \/ \E t \in Txns : Step(Grant(t))
  \/ \E t \in Txns : Step(StrayUnlock(t))

\* Scheduling: a thread that is inside a lock-manager call and can run does
\* run (it takes latch_ when it is free, it returns from cv_.wait after a
\* notification), and a transaction that is not blocked releases each lock it
\* holds (it commits or aborts).  Nothing forces a client to ask for a lock,
\* and nothing forces a wait to end without a notification.
\* The calls of a client that upgrades with LockUpgrade only: LockExclusive
\* is never called on a rid the transaction holds in shared mode, so the
\* second unlock of latch_ never happens.
NextLMFair ==
  \/ \E t \in Txns, r \in Rids : Call(LockShared(t, r))
  \/ \E t \in Txns, r \in Rids : Call(~IsSharedLocked(t, r) /\ LockExclusive(t, r))
  \/ \E t \in Txns, r \in Rids : Call(LockUpgrade(t, r))
  \/ \E t \in Txns, r \in Rids : Step(Unlock(t, r))
  \/ \E t \in Txns : Step(Wait(t))
  \/ \E t \in Txns : Step(Wakeup(t))
  \/ \E t \in Txns : Step(Grant(t))

FairLM ==
  /\ \A t \in Txns : WF_vars(Step(Wait(t)))
  /\ \A t \in Txns : WF_vars(Step(Wakeup(t)))
  /\ \A t \in Txns : WF_vars(Step(Grant(t)))
  /\ \A t \in Txns, r \in Rids : WF_vars(Step(Unlock(t, r)))

(***************************************************************************)
(* LRU-K REPLACER (src/src/buffer/lru_k_replacer.cpp)                      *)
(* The buffer pool passes no access type, so every node is created by the  *)
(* cold path and warm_list_ stays empty.                                   *)
(***************************************************************************)
NumFrames == 1

ReplacerK == 2

MaxTimestamp == 4

\* the frames of the pool: pages_[0 .. pool_size_ - 1]
Frames == DOMAIN pages

\* AccessType: the tag RecordAccess is called with; the buffer pool passes none
AccessTypes == {"Unknown", "Get"}

NoNode ==
  [present |-> FALSE, accessed_time_ |-> <<>>, is_evictable_ |-> FALSE, access_type_ |-> "Unknown"]

\* LRUKReplacer::LRUKReplacer.  cold_list_, warm_list_ and hot_list_ are the
\* chains of linked nodes; aborted is set when a checked build stops the
\* process at a list call that is given an iterator of another list.
NewReplacer ==
  [node_store_ |-> [f \in Frames |-> NoNode], cold_list_ |-> <<>>, warm_list_ |-> <<>>,
   hot_list_ |-> <<>>, curr_size_ |-> 0, current_timestamp_ |-> 0, k_ |-> ReplacerK,
   aborted |-> FALSE]

SeqWithout(s, x) == SelectSeq(s, LAMBDA y : y # x)

InList(list, f) == \E i \in 1..Len(list) : list[i] = f

\* First frame of the list whose node is evictable, NoFrame when there is none
NoFrame == -1

\* A scan that takes the first node of the list, evictable or not
FirstTracked(rep, list) == IF list # <<>> THEN list[1] ELSE NoFrame

FirstEvictable(rep, list) ==
  IF \E i \in 1..Len(list) : rep.node_store_[list[i]].is_evictable_
  THEN list[SetToSeqMin({i \in 1..Len(list) : rep.node_store_[list[i]].is_evictable_})]
  ELSE NoFrame

\* An Evict that looks at hot_list_ first
EvictOrderHotFirst(rep) == rep.hot_list_ \o rep.cold_list_ \o rep.warm_list_

\* LRUKReplacer::Evict, the order of its three loops
EvictOrder(rep) == rep.cold_list_ \o rep.warm_list_ \o rep.hot_list_

\* An Evict that finds no victim
EvictNothing(rep) == [ok |-> FALSE, frame |-> NoFrame, rep |-> rep]

\* LRUKReplacer::Evict : [ok, frame, rep]
Evict(rep) ==
  LET v == FirstEvictable(rep, EvictOrder(rep))
  IN  IF rep.curr_size_ = 0 \/ v = NoFrame
      THEN [ok |-> FALSE, frame |-> NoFrame, rep |-> rep]
      ELSE [ok |-> TRUE, frame |-> v,
            rep |-> [rep EXCEPT !.node_store_[v] = NoNode,
                                !.cold_list_ = SeqWithout(@, v),
                                !.warm_list_ = SeqWithout(@, v),
                                !.hot_list_ = SeqWithout(@, v),
                                !.curr_size_ = @ - 1]]

\* A hot_list_ that keeps the order of the last access
HotInsertBack(store, hot, f) == Append(hot, f)

\* hot_list_ is an ordered set of nodes: a node stands before every node whose
\* oldest kept access is later.
HotInsert(store, hot, f) ==
  LET key(g) == Head(store[g].accessed_time_)
      before == SelectSeq(hot, LAMBDA g : key(g) < key(f))
      after  == SelectSeq(hot, LAMBDA g : ~(key(g) < key(f)))
  IN  before \o <<f>> \o after

\* LRUKReplacer::RecordAccess(frame_id, access_type).  An insert or erase unlinks
\* or links the node in the chain the iterator points into, whichever list
\* object it is called on.
RecordAccessAs(rep, f, access_type) ==
  LET now  == rep.current_timestamp_ + 1
      node == rep.node_store_[f]
      r0   == [rep EXCEPT !.current_timestamp_ = now]
  IN  IF ~node.present
      THEN [r0 EXCEPT !.node_store_[f] =
                         [present |-> TRUE, accessed_time_ |-> <<now>>, is_evictable_ |-> FALSE,
                          access_type_ |-> access_type],
                      !.cold_list_ = Append(@, f)]
      ELSE IF Len(node.accessed_time_) >= rep.k_
      THEN LET store == [r0.node_store_ EXCEPT ![f].accessed_time_ = Append(Tail(@), now)]
           IN  [r0 EXCEPT !.node_store_ = store,
                          !.hot_list_ = HotInsert(store, SeqWithout(@, f), f)]
      ELSE LET store == [r0.node_store_ EXCEPT ![f].accessed_time_ = Append(@, now)]
           IN  IF Len(store[f].accessed_time_) >= rep.k_
               THEN [r0 EXCEPT !.node_store_ = store,
                               !.cold_list_ = SeqWithout(@, f),
                               !.warm_list_ = SeqWithout(@, f),
                               !.hot_list_ = HotInsert(store, @, f)]
               ELSE IF node.access_type_ # access_type /\ access_type = "Get"
               THEN [r0 EXCEPT !.node_store_ = store,
                               !.cold_list_ = SeqWithout(@, f),
                               !.warm_list_ = Append(SeqWithout(@, f), f)]
               ELSE [r0 EXCEPT !.node_store_ = store]

\* the list object the code names when it erases a node that has fewer than
\* k_ accesses (lines 86-90 and 125-129)
ListNamed(node) == IF node.access_type_ = "Get" THEN "warm" ELSE "cold"

\* the chain the node is linked in
ListOf(rep, f) ==
  IF InList(rep.cold_list_, f) THEN "cold"
  ELSE IF InList(rep.warm_list_, f) THEN "warm" ELSE "hot"

\* RecordAccess hands a list an iterator of another list: line 67 (insert into
\* warm_list_ at cold_list_.end()), lines 87/89 and line 96 (erase)
RecordAccessForeign(rep, f, access_type) ==
  LET node == rep.node_store_[f]
  IN  IF ~node.present THEN access_type = "Get"
      ELSE /\ Len(node.accessed_time_) < rep.k_
           /\ IF Len(node.accessed_time_) + 1 >= rep.k_
              THEN ListOf(rep, f) # ListNamed(node)
              ELSE node.access_type_ # access_type /\ access_type = "Get"
                   /\ ListOf(rep, f) # "cold"

\* node.hot_it_ was never assigned although the node has k_ accesses: lines 77
\* and 124 erase a value-initialised iterator from hot_list_
HotItSingular(rep, f) ==
  /\ rep.node_store_[f].present
  /\ Len(rep.node_store_[f].accessed_time_) >= rep.k_
  /\ ~InList(rep.hot_list_, f)

\* LRUKReplacer::RecordAccess(frame_id), the call of the buffer pool
RecordAccess(rep, f) == RecordAccessAs(rep, f, "Unknown")

\* A SetEvictable that marks the node evictable whatever it is told
SetEvictableAlways(rep, f, set_evictable) ==
  IF rep.node_store_[f].present
  THEN [rep EXCEPT !.curr_size_ = @ + 1 - (IF rep.node_store_[f].is_evictable_ THEN 1 ELSE 0),
                   !.node_store_[f].is_evictable_ = TRUE]
  ELSE rep

\* LRUKReplacer::SetEvictable
SetEvictable(rep, f, set_evictable) ==
  IF rep.node_store_[f].present
  THEN [rep EXCEPT !.curr_size_ = @ + (IF set_evictable THEN 1 ELSE 0)
                                    - (IF rep.node_store_[f].is_evictable_ THEN 1 ELSE 0),
                   !.node_store_[f].is_evictable_ = set_evictable]
  ELSE rep

\* A Remove that leaves curr_size_ as it is
RemoveKeepSize(rep, f) ==
  IF ~rep.node_store_[f].present THEN rep
  ELSE [rep EXCEPT !.cold_list_ = SeqWithout(@, f),
                   !.warm_list_ = SeqWithout(@, f),
                   !.hot_list_ = SeqWithout(@, f),
                   !.node_store_[f] = NoNode]

\* LRUKReplacer::Remove, for a node that is absent or evictable
Remove(rep, f) ==
  IF ~rep.node_store_[f].present THEN rep
  ELSE [rep EXCEPT !.curr_size_ = @ - 1,
                   !.cold_list_ = SeqWithout(@, f),
                   !.warm_list_ = SeqWithout(@, f),
                   !.hot_list_ = SeqWithout(@, f),
                   !.node_store_[f] = NoNode]

\* LRUKReplacer::Remove throws on a node that is not evictable
RemoveThrows(rep, f) == rep.node_store_[f].present /\ ~rep.node_store_[f].is_evictable_

\* Remove erases the node from a list it is not linked in (lines 125-129)
RemoveForeign(rep, f) ==
  /\ rep.node_store_[f].present /\ rep.node_store_[f].is_evictable_
  /\ Len(rep.node_store_[f].accessed_time_) < rep.k_
  /\ ListOf(rep, f) # ListNamed(rep.node_store_[f])

\* LRUKReplacer::Size
Size(rep) == rep.curr_size_

(***************************************************************************)
(* BUFFER POOL MANAGER and DISK SCHEDULER                                  *)
(* (src/src/buffer/buffer_pool_manager.cpp)                                *)
(* Client calls come from one thread at a time; the thread-pool workers    *)
(* run the queued tasks in between, in any order the pool allows.          *)
(***************************************************************************)
MaxPages == 2

MaxData == 1

MaxPin == 2

NumWorkers == 2

\* the page ids AllocatePage hands out within the bound of the specification
PageIds == DOMAIN page_table

Data == 0..MaxData

Workers == 1..NumWorkers

INVALID_PAGE_ID == -1

\* A null write_page_data_
NoData == -1

\* The content of a page nobody has unpinned dirty since it was last written
Unknown == -1

\* No task in the hands of a worker
NoTask == -1

ZeroPage == 0

FreshPage == [page_id_ |-> INVALID_PAGE_ID, pin_count_ |-> 0, is_dirty_ |-> FALSE, data_ |-> ZeroPage]

FreshRequest ==
  [need_read_ |-> FALSE, need_write_ |-> FALSE, write_page_data_ |-> NoData, read_page_data_ |-> NoFrame]

\* DiskScheduler::SubmitRead
SubmitRead(reqs, p, f) == [reqs EXCEPT ![p].need_read_ = TRUE, ![p].read_page_data_ = f]

\* A SubmitWrite that keeps the bytes of a write that is already queued
SubmitWriteKeepQueued(reqs, p, data) ==
  IF reqs[p].need_write_ THEN reqs
  ELSE [reqs EXCEPT ![p].need_write_ = TRUE, ![p].write_page_data_ = data]

\* DiskScheduler::SubmitWrite
SubmitWrite(reqs, p, data) == [reqs EXCEPT ![p].need_write_ = TRUE, ![p].write_page_data_ = data]

\* An ExecuteRead that always reads the disk
ExecuteReadFromDisk(io, p) ==
  LET request == io.reqs[p]
  IN  IF request.need_read_
      THEN [io EXCEPT !.pages[request.read_page_data_].data_ = io.disk[p],
                      !.reqs[p].need_read_ = FALSE]
      ELSE io

\* DiskScheduler::ExecuteRead(DiskRequest &) on [pages, reqs, disk]
ExecuteRead(io, p) ==
  LET request == io.reqs[p]
  IN  IF request.need_read_
      THEN [io EXCEPT !.pages[request.read_page_data_].data_ =
                         IF request.need_write_ THEN request.write_page_data_ ELSE io.disk[p],
                      !.reqs[p].need_read_ = FALSE]
      ELSE io

\* DiskScheduler::ExecuteWrite(DiskRequest &) on [pages, reqs, disk]
ExecuteWrite(io, p) ==
  LET request == io.reqs[p]
      served  == IF request.need_read_
                 THEN [io EXCEPT !.pages[request.read_page_data_].data_ = request.write_page_data_,
                                 !.reqs[p].need_read_ = FALSE]
                 ELSE io
  IN  IF request.need_write_
      THEN [served EXCEPT !.disk[p] = request.write_page_data_,
                          !.reqs[p].write_page_data_ = NoData,
                          !.reqs[p].need_write_ = FALSE]
      ELSE io

\* Lines 46-51 and 98-103: the frame a page is put in, from the free list
\* first and from the replacer otherwise.
AcquireFrame ==
  IF free_list # <<>>
  THEN [ok |-> TRUE, frame |-> Head(free_list), free |-> Tail(free_list), rep |-> replacer]
  ELSE [ok |-> Evict(replacer).ok, frame |-> Evict(replacer).frame, free |-> free_list,
        rep |-> Evict(replacer).rep]

\* page_table_[page_id] = frame_id, without the erase
RemapKeepOld(table, old_page_id, page_id, f) ==
  [q \in PageIds |-> IF q = page_id THEN f ELSE table[q]]

\* page_table_.erase(page->page_id_); page_table_[page_id] = frame_id
Remap(table, old_page_id, page_id, f) ==
  [q \in PageIds |-> IF q = page_id THEN f ELSE IF q = old_page_id THEN NoFrame ELSE table[q]]

\* BufferPoolManager::NewPage
NewPage ==
  /\ next_page_id \in PageIds
  /\ replacer.current_timestamp_ < MaxTimestamp
  /\ \E a \in {AcquireFrame} :
       IF ~a.ok THEN UNCHANGED bpmVars
       ELSE \E f \in {a.frame} : \E old \in {pages[a.frame]} : \E p \in {next_page_id} :
            \E r1 \in {IF old.is_dirty_ THEN SubmitWrite(disk_requests, old.page_id_, old.data_)
                       ELSE disk_requests} :
              /\ replacer' = SetEvictable(RecordAccess(a.rep, f), f, FALSE)
              /\ free_list' = a.free
              /\ page_table' = Remap(page_table, old.page_id_, p, f)
              /\ next_page_id' = p + 1
              /\ pages' = [pages EXCEPT ![f] = [page_id_ |-> p, pin_count_ |-> 1,
                                                is_dirty_ |-> FALSE, data_ |-> ZeroPage]]
              /\ disk_requests' = SubmitWrite(r1, p, ZeroPage)
              /\ task_queue' = task_queue \o <<p>> \o (IF old.is_dirty_ THEN <<old.page_id_>> ELSE <<>>)
              /\ durable' = [durable EXCEPT ![p] = ZeroPage]
              /\ UNCHANGED <<worker, disk, flushed, refetched>>

\* A FetchPage of a resident page that takes two pins
FetchHitTwoPins(p) ==
  \E f \in {page_table[p]} :
  \E io \in {ExecuteRead([pages |-> [pages EXCEPT ![f].pin_count_ = @ + 2],
                          reqs |-> disk_requests, disk |-> disk], p)} :
    /\ pages[f].pin_count_ < MaxPin
    /\ replacer' = IF pages[f].pin_count_ = 0
                   THEN SetEvictable(RecordAccess(replacer, f), f, FALSE)
                   ELSE RecordAccess(replacer, f)
    /\ pages' = io.pages
    /\ disk_requests' = io.reqs
    /\ UNCHANGED <<page_table, free_list, next_page_id, task_queue, worker, disk, durable, flushed, refetched>>

\* BufferPoolManager::FetchPage, the page is resident
FetchHit(p) ==
  \E f \in {page_table[p]} :
  \E io \in {ExecuteRead([pages |-> [pages EXCEPT ![f].pin_count_ = @ + 1],
                          reqs |-> disk_requests, disk |-> disk], p)} :
    /\ pages[f].pin_count_ < MaxPin
    /\ replacer' = IF pages[f].pin_count_ = 0
                   THEN SetEvictable(RecordAccess(replacer, f), f, FALSE)
                   ELSE RecordAccess(replacer, f)
    /\ pages' = io.pages
    /\ disk_requests' = io.reqs
    /\ UNCHANGED <<page_table, free_list, next_page_id, task_queue, worker, disk, durable, flushed, refetched>>

\* BufferPoolManager::FetchPage, the page is read in
FetchMiss(p) ==
  \E a \in {AcquireFrame} :
    IF ~a.ok THEN UNCHANGED bpmVars
    ELSE \E f \in {a.frame} : \E old \in {pages[a.frame]} :
         \E r1 \in {IF old.is_dirty_ THEN SubmitWrite(disk_requests, old.page_id_, old.data_)
                    ELSE disk_requests} :
         \E io \in {ExecuteRead([pages |-> [pages EXCEPT ![f] = [page_id_ |-> p, pin_count_ |-> 1,
                                                                is_dirty_ |-> FALSE, data_ |-> old.data_]],
                                 reqs |-> SubmitRead(r1, p, f), disk |-> disk], p)} :
           /\ replacer' = SetEvictable(RecordAccess(a.rep, f), f, FALSE)
           /\ free_list' = a.free
           /\ page_table' = Remap(page_table, old.page_id_, p, f)
           /\ pages' = io.pages
           /\ disk_requests' = io.reqs
           /\ task_queue' = task_queue \o (IF old.is_dirty_ THEN <<old.page_id_>> ELSE <<>>)
           /\ refetched' = refetched \cup {p}
           /\ UNCHANGED <<next_page_id, worker, disk, durable, flushed>>

\* BufferPoolManager::FetchPage of a page id NewPage has handed out
FetchPage(p) ==
  /\ p < next_page_id
  /\ replacer.current_timestamp_ < MaxTimestamp
  /\ IF page_table[p] # NoFrame THEN FetchHit(p) ELSE FetchMiss(p)

\* The holder of a pin writes the bytes of the page
WriteData(p, d) ==
  /\ page_table[p] # NoFrame
  /\ pages[page_table[p]].pin_count_ > 0
  /\ pages[page_table[p]].data_ # d
  /\ pages' = [pages EXCEPT ![page_table[p]].data_ = d]
  /\ durable' = [durable EXCEPT ![p] = Unknown]
  /\ flushed' = flushed \ {p}
  /\ refetched' = refetched \ {p}
  /\ UNCHANGED <<page_table, free_list, next_page_id, replacer, disk_requests, task_queue,
                 worker, disk>>

\* An UnpinPage that stores the flag it is given
UnpinPageAssignDirty(p, is_dirty) ==
  IF page_table[p] = NoFrame \/ pages[page_table[p]].pin_count_ <= 0
  THEN UNCHANGED bpmVars
  ELSE \E f \in {page_table[p]} :
         /\ replacer' = IF pages[f].pin_count_ = 1 THEN SetEvictable(replacer, f, TRUE) ELSE replacer
         /\ pages' = [pages EXCEPT ![f].pin_count_ = @ - 1, ![f].is_dirty_ = is_dirty]
         /\ durable' = IF is_dirty THEN [durable EXCEPT ![p] = pages[f].data_] ELSE durable
         /\ UNCHANGED <<page_table, free_list, next_page_id, disk_requests, task_queue,
                        worker, disk, flushed, refetched>>

\* BufferPoolManager::UnpinPage
UnpinPage(p, is_dirty) ==
  IF page_table[p] = NoFrame \/ pages[page_table[p]].pin_count_ <= 0
  THEN UNCHANGED bpmVars
  ELSE \E f \in {page_table[p]} :
         /\ replacer' = IF pages[f].pin_count_ = 1 THEN SetEvictable(replacer, f, TRUE) ELSE replacer
         /\ pages' = [pages EXCEPT ![f].pin_count_ = @ - 1, ![f].is_dirty_ = @ \/ is_dirty]
         /\ durable' = IF is_dirty THEN [durable EXCEPT ![p] = pages[f].data_] ELSE durable
         /\ UNCHANGED <<page_table, free_list, next_page_id, disk_requests, task_queue,
                        worker, disk, flushed, refetched>>

\* BufferPoolManager::FlushPage
FlushPage(p) ==
  IF page_table[p] = NoFrame THEN UNCHANGED bpmVars
  ELSE \E f \in {page_table[p]} :
         /\ disk' = [disk EXCEPT ![p] = pages[f].data_]
         /\ pages' = [pages EXCEPT ![f].is_dirty_ = FALSE]
         /\ flushed' = flushed \cup {p}
         /\ UNCHANGED refetched
         /\ UNCHANGED <<page_table, free_list, next_page_id, replacer, disk_requests,
                        task_queue, worker, durable>>

\* BufferPoolManager::FlushAllPages
FlushAllPages ==
  /\ disk' = [q \in PageIds |-> IF page_table[q] # NoFrame THEN pages[page_table[q]].data_
                                ELSE disk[q]]
  /\ pages' = [f \in Frames |-> IF pages[f].page_id_ # INVALID_PAGE_ID
                                      /\ page_table[pages[f].page_id_] = f
                                THEN [pages[f] EXCEPT !.is_dirty_ = FALSE] ELSE pages[f]]
  /\ flushed' = flushed \cup {q \in PageIds : page_table[q] # NoFrame}
  /\ UNCHANGED refetched
  /\ UNCHANGED <<page_table, free_list, next_page_id, replacer, disk_requests,
                 task_queue, worker, durable>>


\* A DeletePage that leaves the frame's node in the replacer
DeletePageKeepNode(p) ==
  IF page_table[p] = NoFrame \/ pages[page_table[p]].pin_count_ > 0
  THEN UNCHANGED bpmVars
  ELSE \E f \in {page_table[p]} :
         /\ free_list' = Append(free_list, f)
         /\ page_table' = [page_table EXCEPT ![p] = NoFrame]
         /\ pages' = [pages EXCEPT ![f].page_id_ = INVALID_PAGE_ID,
                                   ![f].pin_count_ = 0, ![f].is_dirty_ = FALSE]
         /\ durable' = [durable EXCEPT ![p] = Unknown]
         /\ UNCHANGED <<replacer, next_page_id, disk_requests, task_queue, worker, disk,
                        flushed, refetched>>

\* BufferPoolManager::DeletePage
DeletePage(p) ==
  IF page_table[p] = NoFrame \/ pages[page_table[p]].pin_count_ > 0
  THEN UNCHANGED bpmVars
  ELSE \E f \in {page_table[p]} :
         IF RemoveThrows(replacer, f)
         THEN /\ free_list' = Append(free_list, f)
              /\ UNCHANGED <<pages, page_table, next_page_id, replacer, disk_requests,
                             task_queue, worker, disk, durable, flushed, refetched>>
         ELSE /\ free_list' = Append(free_list, f)
              /\ replacer' = Remove(replacer, f)
              /\ page_table' = [page_table EXCEPT ![p] = NoFrame]
              /\ pages' = [pages EXCEPT ![f].page_id_ = INVALID_PAGE_ID,
                                        ![f].pin_count_ = 0, ![f].is_dirty_ = FALSE]
              /\ durable' = [durable EXCEPT ![p] = Unknown]
              /\ UNCHANGED <<next_page_id, disk_requests, task_queue, worker, disk, flushed, refetched>>

\* DiskScheduler::ThreadPoolWorker, lines 294-303: a worker pops the front task
WorkerPop(w) ==
  /\ worker[w] = NoTask
  /\ task_queue # <<>>
  /\ worker' = [worker EXCEPT ![w] = Head(task_queue)]
  /\ task_queue' = Tail(task_queue)
  /\ UNCHANGED <<pages, page_table, free_list, next_page_id, replacer, disk_requests,
                 disk, durable, flushed, refetched>>

\* DiskScheduler::ThreadPoolWorker, line 304: the worker runs ExecuteWrite
WorkerRun(w) ==
  /\ worker[w] # NoTask
  /\ \E io \in {ExecuteWrite([pages |-> pages, reqs |-> disk_requests, disk |-> disk], worker[w])} :
       /\ pages' = io.pages
       /\ disk_requests' = io.reqs
       /\ disk' = io.disk
  /\ worker' = [worker EXCEPT ![w] = NoTask]
  /\ UNCHANGED <<page_table, free_list, next_page_id, replacer, task_queue, durable, flushed, refetched>>

\* a client thread before and between its calls
IdleClient ==
  [pc |-> "idle", page_id |-> INVALID_PAGE_ID, frame_id |-> NoFrame,
   old_page_id |-> INVALID_PAGE_ID, old_is_dirty |-> FALSE, made |-> 0]

\* BufferPoolManager::BufferPoolManager(pool_size, ...), with the number of
\* page ids the clients may allocate
StartPoolK(pool_size, num_pages, k) ==
  /\ pages = [f \in 0 .. (pool_size - 1) |-> FreshPage]
  /\ page_table = [p \in 0 .. (num_pages - 1) |-> NoFrame]
  /\ free_list = [i \in 1 .. pool_size |-> i - 1]
  /\ next_page_id = 0
  /\ replacer = [NewReplacer EXCEPT !.k_ = k]
  /\ disk_requests = [p \in PageIds |-> FreshRequest]
  /\ task_queue = <<>>
  /\ worker = [w \in Workers |-> NoTask]
  /\ disk = [p \in PageIds |-> ZeroPage]
  /\ durable = [p \in PageIds |-> Unknown]
  /\ flushed = {}
  /\ refetched = {}
  /\ bpm_threads = [t \in Threads |-> IdleClient]

StartPool(pool_size, num_pages) == StartPoolK(pool_size, num_pages, ReplacerK)

StartBPM == StartPool(NumFrames, MaxPages)

BPMOp(A) == A /\ UNCHANGED <<lmVars, treeVars, bpm_threads>>

NextBPM ==
  \/ BPMOp(NewPage)
  \/ \E p \in PageIds : BPMOp(FetchPage(p))
  \/ \E p \in PageIds, d \in Data \ {ZeroPage} : BPMOp(WriteData(p, d))
  \/ \E p \in PageIds, is_dirty \in BOOLEAN : BPMOp(UnpinPage(p, is_dirty))
  \/ \E p \in PageIds : BPMOp(FlushPage(p))
  \/ BPMOp(FlushAllPages)
  \/ \E p \in PageIds : BPMOp(DeletePage(p))
  \/ \E w \in Workers : BPMOp(WorkerPop(w))
  \/ \E w \in Workers : BPMOp(WorkerRun(w))

\* The calls that move frames between the free list, the replacer and the
\* pinned pages, on a pool of several frames, with the workers of the disk
\* scheduler running the writes these calls queue
PoolFrames == 2

PoolPages == 3

(***************************************************************************)
(* The replacer on its own: any caller, any access type                    *)
(***************************************************************************)
ReplacerFrames == 3

ReplacerAccesses == 5

\* the values of k the replacer is constructed with
ReplacerKs == {ReplacerK, ReplacerK + 1}

ReplacerOp(A) ==
  /\ ~replacer.aborted
  /\ A
  /\ UNCHANGED <<lmVars, treeVars, bpm_threads, pages, page_table, free_list, next_page_id,
                 disk_requests, task_queue, worker, disk, durable, flushed, refetched>>

\* a call of RecordAccess; a call that hands a list a foreign iterator links
\* or unlinks the node where the iterator points, or stops a checked build
CallRecordAccess(f, access_type) ==
  /\ replacer.current_timestamp_ < ReplacerAccesses
  /\ \/ /\ ~HotItSingular(replacer, f)
        /\ replacer' = RecordAccessAs(replacer, f, access_type)
     \/ /\ RecordAccessForeign(replacer, f, access_type) \/ HotItSingular(replacer, f)
        /\ replacer' = [replacer EXCEPT !.aborted = TRUE]

CallSetEvictable(f, set_evictable) == replacer' = SetEvictable(replacer, f, set_evictable)

CallEvict == replacer' = Evict(replacer).rep

\* a call of Remove; the exception of line 120 leaves the replacer as it is
CallRemove(f) ==
  IF RemoveThrows(replacer, f) THEN replacer' = replacer
  ELSE \/ /\ ~HotItSingular(replacer, f)
          /\ replacer' = Remove(replacer, f)
       \/ /\ RemoveForeign(replacer, f) \/ HotItSingular(replacer, f)
          /\ replacer' = [replacer EXCEPT !.aborted = TRUE]

NextReplacer ==
  \/ \E f \in Frames, access_type \in AccessTypes : ReplacerOp(CallRecordAccess(f, access_type))
  \/ \E f \in Frames, set_evictable \in BOOLEAN : ReplacerOp(CallSetEvictable(f, set_evictable))
  \/ ReplacerOp(CallEvict)
  \/ \E f \in Frames : ReplacerOp(CallRemove(f))

NextPool ==
  \/ BPMOp(NewPage)
  \/ \E p \in PageIds : BPMOp(FetchPage(p))
  \/ \E p \in PageIds, is_dirty \in BOOLEAN : BPMOp(UnpinPage(p, is_dirty))
  \/ \E p \in PageIds : BPMOp(DeletePage(p))
  \/ \E w \in Workers : BPMOp(WorkerPop(w))
  \/ \E w \in Workers : BPMOp(WorkerRun(w))

\* Client threads running NewPageHelper: NewPage, write the page, UnpinPage
\* it dirty, any number of times; once every thread has returned, the pages
\* are fetched and unpinned one call at a time (NewPageTest2).
\* gen_str(page_id): the bytes a client writes to the page it created
PageBytes(p) == p + 1

\* NewPage, lines 42-70: what the call does while it holds latch_
NewPageLatched(t) ==
  /\ bpm_threads[t].pc = "idle"
  /\ next_page_id \in PageIds
  /\ \E a \in {AcquireFrame} :
       IF ~a.ok
       THEN /\ bpm_threads' = [bpm_threads EXCEPT ![t].pc = "null"]
            /\ UNCHANGED bpmVars
       ELSE \E f \in {a.frame} : \E old \in {pages[a.frame]} : \E p \in {next_page_id} :
            \E r1 \in {IF old.is_dirty_ THEN SubmitWrite(disk_requests, old.page_id_, old.data_)
                       ELSE disk_requests} :
              /\ replacer' = SetEvictable(RecordAccess(a.rep, f), f, FALSE)
              /\ free_list' = a.free
              /\ page_table' = Remap(page_table, old.page_id_, p, f)
              /\ next_page_id' = p + 1
              /\ pages' = [pages EXCEPT ![f] = [page_id_ |-> p, pin_count_ |-> 1,
                                                is_dirty_ |-> FALSE, data_ |-> ZeroPage]]
              /\ disk_requests' = SubmitWrite(r1, p, ZeroPage)
              /\ durable' = [durable EXCEPT ![p] = ZeroPage]
              /\ bpm_threads' = [bpm_threads EXCEPT ![t] =
                   [pc |-> "async_new", page_id |-> p, frame_id |-> f,
                    old_page_id |-> old.page_id_, old_is_dirty |-> old.is_dirty_,
                    made |-> bpm_threads[t].made + 1]]
              /\ UNCHANGED <<task_queue, worker, disk, flushed, refetched>>

\* NewPage, line 72: ExecuteWriteAsync(*page_id)
NewPageAsyncNew(t) ==
  /\ bpm_threads[t].pc = "async_new"
  /\ task_queue' = Append(task_queue, bpm_threads[t].page_id)
  /\ bpm_threads' = [bpm_threads EXCEPT ![t].pc = IF bpm_threads[t].old_is_dirty
                                                   THEN "async_old" ELSE "returned"]
  /\ UNCHANGED <<pages, page_table, free_list, next_page_id, replacer, disk_requests,
                 worker, disk, durable, flushed, refetched>>

\* NewPage, lines 73-75: ExecuteWriteAsync(old_page_id)
NewPageAsyncOld(t) ==
  /\ bpm_threads[t].pc = "async_old"
  /\ task_queue' = Append(task_queue, bpm_threads[t].old_page_id)
  /\ bpm_threads' = [bpm_threads EXCEPT ![t].pc = "returned"]
  /\ UNCHANGED <<pages, page_table, free_list, next_page_id, replacer, disk_requests,
                 worker, disk, durable, flushed, refetched>>

\* NewPageHelper: snprintf(page->GetData(), ...) on the frame NewPage returned
ClientWrite(t) ==
  /\ bpm_threads[t].pc = "returned"
  /\ pages' = [pages EXCEPT ![bpm_threads[t].frame_id].data_ = PageBytes(bpm_threads[t].page_id)]
  /\ bpm_threads' = [bpm_threads EXCEPT ![t].pc = "written"]
  /\ UNCHANGED <<page_table, free_list, next_page_id, replacer, disk_requests, task_queue,
                 worker, disk, durable, flushed, refetched>>

\* NewPageHelper: bpm->UnpinPage(page_id_temp, true)
ClientUnpin(t) ==
  /\ bpm_threads[t].pc = "written"
  /\ UnpinPage(bpm_threads[t].page_id, TRUE)
  /\ bpm_threads' = [bpm_threads EXCEPT ![t].pc = "idle"]

\* NewPageHelper returns
ClientDone(t) ==
  /\ bpm_threads[t].pc = "idle"
  /\ bpm_threads' = [bpm_threads EXCEPT ![t].pc = "done"]
  /\ UNCHANGED bpmVars

AllJoined == \A t \in Threads : bpm_threads[t].pc = "done"

ClientStep(A) == A /\ UNCHANGED <<lmVars, treeVars>>

NextPoolConc ==
  \/ \E t \in Threads : ClientStep(NewPageLatched(t))
  \/ \E t \in Threads : ClientStep(NewPageAsyncNew(t))
  \/ \E t \in Threads : ClientStep(NewPageAsyncOld(t))
  \/ \E t \in Threads : ClientStep(ClientWrite(t))
  \/ \E t \in Threads : ClientStep(ClientUnpin(t))
  \/ \E t \in Threads : ClientStep(ClientDone(t))
  \/ \E p \in PageIds : AllJoined /\ BPMOp(FetchPage(p))
  \/ \E p \in PageIds : AllJoined /\ BPMOp(UnpinPage(p, FALSE))
  \/ \E w \in Workers : BPMOp(WorkerPop(w))
  \/ \E w \in Workers : BPMOp(WorkerRun(w))

\* Client threads that also fetch the pages they created: FetchPage split at
\* latch.unlock(), so that one thread's hit can fall between another
\* thread's miss and its read
FetchAccesses == 5

\* a hit that returns without looking at the page's request
CheckPageLoadedSkip(io, p) == io

\* DiskScheduler::CheckPageLoaded
CheckPageLoaded(io, p) == ExecuteRead(io, p)

\* FetchPage, lines 81-93 and 98-119: what the call does while it holds latch_
FetchPageLatched(t, p) ==
  /\ bpm_threads[t].pc = "idle"
  /\ p < next_page_id /\ durable[p] = PageBytes(p)
  /\ replacer.current_timestamp_ < FetchAccesses
  /\ IF page_table[p] # NoFrame
     THEN \E f \in {page_table[p]} :
            /\ replacer' = IF pages[f].pin_count_ = 0
                           THEN SetEvictable(RecordAccess(replacer, f), f, FALSE)
                           ELSE RecordAccess(replacer, f)
            /\ pages' = [pages EXCEPT ![f].pin_count_ = @ + 1]
            /\ bpm_threads' = [bpm_threads EXCEPT ![t].pc = "check", ![t].page_id = p,
                                                   ![t].frame_id = f]
            /\ UNCHANGED <<page_table, free_list, next_page_id, disk_requests, task_queue,
                           worker, disk, durable, flushed, refetched>>
     ELSE \E a \in {AcquireFrame} :
            IF ~a.ok THEN UNCHANGED <<bpmVars, bpm_threads>>
            ELSE \E f \in {a.frame} : \E old \in {pages[a.frame]} :
                 \E r1 \in {IF old.is_dirty_ THEN SubmitWrite(disk_requests, old.page_id_, old.data_)
                            ELSE disk_requests} :
                   /\ replacer' = SetEvictable(RecordAccess(a.rep, f), f, FALSE)
                   /\ free_list' = a.free
                   /\ page_table' = Remap(page_table, old.page_id_, p, f)
                   /\ pages' = [pages EXCEPT ![f] = [page_id_ |-> p, pin_count_ |-> 1,
                                                     is_dirty_ |-> FALSE, data_ |-> old.data_]]
                   /\ disk_requests' = SubmitRead(r1, p, f)
                   /\ bpm_threads' = [bpm_threads EXCEPT ![t].pc = "read", ![t].page_id = p,
                                        ![t].frame_id = f, ![t].old_page_id = old.page_id_,
                                        ![t].old_is_dirty = old.is_dirty_]
                   /\ UNCHANGED <<next_page_id, task_queue, worker, disk, durable, flushed,
                                  refetched>>

\* FetchPage, line 94 (CheckPageLoaded after a hit) and line 122 (ExecuteRead
\* after a miss)
FetchPageLoad(t) ==
  /\ bpm_threads[t].pc \in {"check", "read"}
  /\ \E before \in {[pages |-> pages, reqs |-> disk_requests, disk |-> disk]} :
     \E io \in {IF bpm_threads[t].pc = "check"
                THEN CheckPageLoaded(before, bpm_threads[t].page_id)
                ELSE ExecuteRead(before, bpm_threads[t].page_id)} :
       /\ pages' = io.pages
       /\ disk_requests' = io.reqs
  /\ bpm_threads' = [bpm_threads EXCEPT ![t].pc =
                       IF @ = "read" /\ bpm_threads[t].old_is_dirty THEN "fetch_old"
                       ELSE "fetched"]
  /\ UNCHANGED <<page_table, free_list, next_page_id, replacer, task_queue, worker, disk,
                 durable, flushed, refetched>>

\* FetchPage, lines 123-125: ExecuteWriteAsync(old_page_id)
FetchPageAsyncOld(t) ==
  /\ bpm_threads[t].pc = "fetch_old"
  /\ task_queue' = Append(task_queue, bpm_threads[t].old_page_id)
  /\ bpm_threads' = [bpm_threads EXCEPT ![t].pc = "fetched"]
  /\ UNCHANGED <<pages, page_table, free_list, next_page_id, replacer, disk_requests,
                 worker, disk, durable, flushed, refetched>>

\* the client looks at the page FetchPage returned and unpins it
FetchedUnpin(t) ==
  /\ bpm_threads[t].pc = "fetched"
  /\ UnpinPage(bpm_threads[t].page_id, FALSE)
  /\ bpm_threads' = [bpm_threads EXCEPT ![t].pc = "idle"]

NextFetchConc ==
  \/ \E t \in Threads : ClientStep(NewPageLatched(t))
  \/ \E t \in Threads : ClientStep(NewPageAsyncNew(t))
  \/ \E t \in Threads : ClientStep(NewPageAsyncOld(t))
  \/ \E t \in Threads : ClientStep(ClientWrite(t))
  \/ \E t \in Threads : ClientStep(ClientUnpin(t))
  \/ \E t \in Threads, p \in PageIds : ClientStep(FetchPageLatched(t, p))
  \/ \E t \in Threads : ClientStep(FetchPageLoad(t))
  \/ \E t \in Threads : ClientStep(FetchPageAsyncOld(t))
  \/ \E t \in Threads : ClientStep(FetchedUnpin(t))
  \/ \E w \in Workers : BPMOp(WorkerPop(w))
  \/ \E w \in Workers : BPMOp(WorkerRun(w))

(***************************************************************************)
(* B+ TREE PAGES                                                           *)
(* src/src/storage/page/b_plus_tree_leaf_page.cpp,                         *)
(* src/src/storage/page/b_plus_tree_internal_page.cpp                      *)
(* A page is [page_type, size, max_size, next_page_id, array]; array is    *)
(* array_ with its slots numbered from 0 as in the source, every slot a    *)
(* pair [first, second].  Slots at and above size keep what was last       *)
(* written to them, as the memory of the page does.                        *)
(***************************************************************************)
MaxKey == 5

MaxVal == 2

MaxTreePages == 10

MaxTreeOps == 6

ArrayCap == 6

Keys == 1 .. MaxKey

Vals == 1 .. MaxVal

TreePageIds == 1 .. MaxTreePages

Slots == 0 .. ArrayCap - 1

header_page_id_ == 0

NoPage == -2

ZeroIndexPage ==
  [page_type |-> "INVALID_INDEX_PAGE", size |-> 0, max_size |-> 0, next_page_id |-> 0,
   array |-> [i \in Slots |-> [first |-> 0, second |-> 0]]]

DeletedPage == [ZeroIndexPage EXCEPT !.page_type = "DELETED"]

IsLeafPage(p) == p.page_type = "LEAF_PAGE"

GetMinSize(p) == (p.max_size + 1) \div 2

IsFull(p) == p.size = p.max_size

UnderHalfFull(p) == p.size < GetMinSize(p)

OverHalfFull(p) == p.size > GetMinSize(p)

\* std::move / std::move_backward of src[s, e) to dst[d, ...): every use in
\* the source copies in the direction that reads a slot before it is
\* overwritten, so the result is the simultaneous copy.
MoveSlots(src, s, e, dst, d) ==
  [i \in Slots |-> IF d <= i /\ i < d + (e - s) THEN src[s + (i - d)] ELSE dst[i]]

LeafInit(p, max_size) ==
  [p EXCEPT !.page_type = "LEAF_PAGE", !.size = 0, !.max_size = max_size,
            !.next_page_id = INVALID_PAGE_ID]

RECURSIVE LowerBoundLoop(_, _, _, _)
LowerBoundLoop(p, key, left, right) ==
  IF left < right
  THEN LET mid == (left + right) \div 2
       IN  IF p.array[mid].first < key
           THEN LowerBoundLoop(p, key, mid + 1, right)
           ELSE LowerBoundLoop(p, key, left, mid)
  ELSE left

LowerBound(p, key) == LowerBoundLoop(p, key, 0, p.size)

HasValue(p, key) ==
  LET index == LowerBound(p, key)
  IN  index # p.size /\ p.array[index].first = key

LeafGetValue(p, key) ==
  LET index == LowerBound(p, key)
  IN  IF index = p.size \/ p.array[index].first # key
      THEN [found |-> FALSE, value |-> 0]
      ELSE [found |-> TRUE, value |-> p.array[index].second]

LeafInsert(p, key, value) ==
  LET index == LowerBound(p, key)
      shifted == IF index < p.size
                 THEN MoveSlots(p.array, index, p.size, p.array, index + 1)
                 ELSE p.array
  IN  [p EXCEPT !.array = [shifted EXCEPT ![index] = [first |-> key, second |-> value]],
                !.size = p.size + 1]

LeafRemove(p, key) ==
  LET index == LowerBound(p, key)
  IN  [p EXCEPT !.array = IF index + 1 < p.size
                          THEN MoveSlots(p.array, index + 1, p.size, p.array, index)
                          ELSE p.array,
                !.size = p.size - 1]

\* returns [this, other]
LeafMoveRange(this, other, start_index, end_index, other_start_index) ==
  LET n == end_index - start_index
      o1 == IF other_start_index < other.size
            THEN MoveSlots(other.array, other_start_index, other.size,
                           other.array, other_start_index + n)
            ELSE other.array
      o2 == MoveSlots(this.array, start_index, end_index, o1, other_start_index)
      t1 == IF end_index < this.size
            THEN MoveSlots(this.array, end_index, this.size, this.array, start_index)
            ELSE this.array
  IN  [this |-> [this EXCEPT !.array = t1, !.size = this.size - n],
       other |-> [other EXCEPT !.array = o2, !.size = other.size + n]]

LastKey(p) == p.array[p.size - 1].first

LastValue(p) == p.array[p.size - 1].second

RemoveLast(p) == [p EXCEPT !.size = p.size - 1]

Max(a, b) == IF a > b THEN a ELSE b

InternalInit(p, max_size) ==
  [p EXCEPT !.page_type = "INTERNAL_PAGE", !.size = 1, !.max_size = max_size]

SetKeyAt(p, index, key) ==
  [p EXCEPT !.array[index].first = key, !.size = Max(p.size, index + 1)]

SetValueAt(p, index, value) ==
  [p EXCEPT !.array[index].second = value, !.size = Max(p.size, index + 1)]

SetKeyValueAt(p, index, key, value) ==
  [p EXCEPT !.array[index] = [first |-> key, second |-> value],
            !.size = Max(p.size, index + 1)]

PageRemoveAt(p, index) ==
  [p EXCEPT !.array = IF index + 1 < p.size
                      THEN MoveSlots(p.array, index + 1, p.size, p.array, index)
                      ELSE p.array,
            !.size = p.size - 1]

RECURSIVE UpperBoundLoop(_, _, _, _)
UpperBoundLoop(p, key, left, right) ==
  IF left < right
  THEN LET mid == (left + right) \div 2
       IN  IF p.array[mid].first <= key
           THEN UpperBoundLoop(p, key, mid + 1, right)
           ELSE UpperBoundLoop(p, key, left, mid)
  ELSE left

UpperBound(p, key) == UpperBoundLoop(p, key, 1, p.size)

\* returns [this, other]
InternalMoveRange(this, other, start_index, end_index, other_start_index) ==
  [this |-> [this EXCEPT !.size = start_index],
   other |-> [other EXCEPT
                !.array = MoveSlots(this.array, start_index, end_index,
                                    other.array, other_start_index),
                !.size = other_start_index + end_index - start_index]]

InternalInsert(p, key, value) ==
  LET index == UpperBound(p, key)
      shifted == IF index < p.size
                 THEN MoveSlots(p.array, index, p.size, p.array, index + 1)
                 ELSE p.array
  IN  [p EXCEPT !.array = [shifted EXCEPT ![index] = [first |-> key, second |-> value]],
                !.size = p.size + 1]

InternalRemove(p, key) == PageRemoveAt(p, UpperBound(p, key) - 1)

InternalGetValue(p, key) == p.array[UpperBound(p, key) - 1].second

(***************************************************************************)
(* B+ TREE   src/src/storage/index/b_plus_tree.cpp                         *)
(* The tree sits on a buffer pool large enough to keep every page          *)
(* resident.  Page ids come from AllocatePage and are never reused; a      *)
(* page handed to DeletePage is gone, and a later fetch of its id reads    *)
(* whatever the disk holds for it: such a fetch is recorded as a fault.    *)
(***************************************************************************)
TreeConfigs == {<<2, 3>>, <<3, 3>>, <<4, 4>>}

MaxDepth == 4

Live(tp, id) ==
  id \in TreePageIds /\ tp[id].page_type \in {"LEAF_PAGE", "INTERNAL_PAGE"}

RECURSIVE FindLeafFrom(_, _, _, _)
FindLeafFrom(tp, id, key, fuel) ==
  IF fuel = 0 \/ ~Live(tp, id) THEN NoPage
  ELSE IF IsLeafPage(tp[id]) THEN id
  ELSE FindLeafFrom(tp, InternalGetValue(tp[id], key), key, fuel - 1)

FindLeaf(tp, root, key) == FindLeafFrom(tp, root, key, MaxDepth)

BPlusTreeGetValue(tp, root, key) ==
  LET leaf == FindLeaf(tp, root, key)
  IN  IF leaf = NoPage
      THEN [found |-> FALSE, value |-> 0, fault |-> TRUE]
      ELSE [found |-> LeafGetValue(tp[leaf], key).found,
            value |-> LeafGetValue(tp[leaf], key).value, fault |-> FALSE]

\* The write set Split and Merge build on the way down: a page that is safe (not full
\* for Split, over half full for Merge) drops every ancestor.  <<>> when the descent leaves the tree.
RECURSIVE WriteSetFrom(_, _, _, _, _)
WriteSetFrom(tp, ws, key, for_split, fuel) ==
  LET id == ws[Len(ws)]
  IN  IF fuel = 0 \/ ~Live(tp, id) THEN <<>>
      ELSE IF IsLeafPage(tp[id]) THEN ws
      ELSE LET kept == IF (for_split /\ ~IsFull(tp[id])) \/ (~for_split /\ OverHalfFull(tp[id]))
                       THEN <<id>> ELSE ws
           IN  WriteSetFrom(tp, Append(kept, InternalGetValue(tp[id], key)), key,
                            for_split, fuel - 1)

WriteSet(tp, root, key, for_split) ==
  WriteSetFrom(tp, <<header_page_id_, root>>, key, for_split, MaxDepth)

\* t is [pages, root, next]; ctx is [new_key, new_page_id]
SplitHeader(t, ctx) ==
  LET new_root_page_id == t.next
      p1 == InternalInit(ZeroIndexPage, internal_max_size_)
      p2 == SetValueAt(p1, 0, t.root)
      p3 == SetKeyValueAt(p2, 1, ctx.new_key, ctx.new_page_id)
  IN  [t |-> [pages |-> [t.pages EXCEPT ![new_root_page_id] = p3],
              root |-> new_root_page_id, next |-> t.next + 1],
       ctx |-> ctx]

SplitInternal(t, id, ctx) ==
  LET internal_page == t.pages[id]
  IN  IF ~IsFull(internal_page)
      THEN [t |-> [t EXCEPT !.pages[id] = InternalInsert(internal_page, ctx.new_key, ctx.new_page_id)],
            ctx |-> ctx]
      ELSE
        LET new_page_id == t.next
            fresh == InternalInit(ZeroIndexPage, internal_max_size_)
            mid_index == GetMinSize(internal_page)
            insert_pos == UpperBound(internal_page, ctx.new_key)
            res ==
              IF insert_pos < mid_index
              THEN LET mv == InternalMoveRange(internal_page, fresh, mid_index - 1, internal_page.size, 0)
                   IN  [old |-> InternalInsert(mv.this, ctx.new_key, ctx.new_page_id), new |-> mv.other]
              ELSE IF insert_pos = mid_index
              THEN LET mv == InternalMoveRange(internal_page, fresh, mid_index, internal_page.size, 1)
                   IN  [old |-> mv.this, new |-> SetKeyValueAt(mv.other, 0, ctx.new_key, ctx.new_page_id)]
              ELSE LET mv == InternalMoveRange(internal_page, fresh, mid_index, internal_page.size, 0)
                   IN  [old |-> mv.this, new |-> InternalInsert(mv.other, ctx.new_key, ctx.new_page_id)]
        IN  [t |-> [t EXCEPT !.pages[id] = res.old, !.pages[new_page_id] = res.new,
                             !.next = t.next + 1],
             ctx |-> [new_key |-> res.new.array[0].first, new_page_id |-> new_page_id]]

SplitLeaf(t, id, ctx) ==
  LET leaf_page == t.pages[id]
  IN  IF ~IsFull(leaf_page) THEN [t |-> t, ctx |-> ctx]
      ELSE
        LET new_page_id == t.next
            mv == LeafMoveRange(leaf_page, LeafInit(ZeroIndexPage, leaf_max_size_),
                                GetMinSize(leaf_page), leaf_page.max_size, 0)
            new_leaf_page == [mv.other EXCEPT !.next_page_id = leaf_page.next_page_id]
        IN  [t |-> [t EXCEPT !.pages[id] = [mv.this EXCEPT !.next_page_id = new_page_id],
                             !.pages[new_page_id] = new_leaf_page,
                             !.next = t.next + 1],
             ctx |-> [new_key |-> new_leaf_page.array[0].first, new_page_id |-> new_page_id]]

RECURSIVE SplitUnwind(_, _, _)
SplitUnwind(t, ws, ctx) ==
  IF ws = <<>> THEN t
  ELSE LET id == ws[Len(ws)]
           r == IF id = header_page_id_ THEN SplitHeader(t, ctx)
                ELSE IF IsLeafPage(t.pages[id]) THEN SplitLeaf(t, id, ctx)
                ELSE SplitInternal(t, id, ctx)
       IN  SplitUnwind(r.t, SubSeq(ws, 1, Len(ws) - 1), r.ctx)

Split(t, ws) ==
  IF ~IsFull(t.pages[ws[Len(ws)]]) THEN t
  ELSE SplitUnwind(t, ws, [new_key |-> 0, new_page_id |-> 0])

\* t is [pages, root, fault]; ctx is the MergeContext
GetSibling(tp, key, parent_page) ==
  LET index == UpperBound(parent_page, key) - 1
  IN  IF index = parent_page.size - 1
      THEN IF index = 0
           THEN [id |-> NoPage, is_left_sib |-> TRUE]
           ELSE [id |-> parent_page.array[index - 1].second, is_left_sib |-> TRUE]
      ELSE IF index = 0
      THEN [id |-> parent_page.array[index + 1].second, is_left_sib |-> FALSE]
      ELSE LET l == parent_page.array[index - 1].second
               r == parent_page.array[index + 1].second
           IN  IF ~Live(tp, l) \/ ~Live(tp, r) THEN [id |-> NoPage, is_left_sib |-> FALSE]
               ELSE IF tp[l].size > tp[r].size
               THEN [id |-> l, is_left_sib |-> TRUE]
               ELSE [id |-> r, is_left_sib |-> FALSE]

\* right = NoPage stands for the nullptr argument
MergeInternal(tp, left, right, ctx) ==
  LET left_page == tp[left]
  IN  IF ctx.op_type_ = "UpdateKey"
      THEN [pages |-> [tp EXCEPT ![left] = SetKeyAt(left_page, UpperBound(left_page, ctx.key_) - 1, ctx.key_)],
            ctx |-> [ctx EXCEPT !.op_type_ = "Finish"]]
      ELSE IF right = NoPage
      THEN LET removed == InternalRemove(left_page, ctx.key_)
           IN  [pages |-> [tp EXCEPT ![left] = removed],
                ctx |-> IF removed.size = 1
                        THEN [ctx EXCEPT !.page_id_ = removed.array[0].second,
                                         !.op_type_ = "UpdateRoot"]
                        ELSE ctx]
      ELSE
        LET right_page == tp[right]
        IN  IF OverHalfFull(left_page)
            THEN LET r1 == InternalInsert(right_page, LastKey(left_page), LastValue(left_page))
                 IN  [pages |-> [tp EXCEPT ![right] = r1, ![left] = RemoveLast(left_page)],
                      ctx |-> [ctx EXCEPT !.op_type_ = "UpdateKey", !.key_ = r1.array[0].first]]
            ELSE IF OverHalfFull(right_page)
            THEN LET l1 == SetKeyValueAt(left_page, left_page.size, ctx.parent_key_,
                                         right_page.array[0].second)
                     r1 == PageRemoveAt(right_page, 0)
                 IN  [pages |-> [tp EXCEPT ![left] = l1, ![right] = r1],
                      ctx |-> [ctx EXCEPT !.op_type_ = "UpdateKey", !.key_ = r1.array[0].first]]
            ELSE LET r1 == SetKeyAt(right_page, 0, ctx.parent_key_)
                     mv == InternalMoveRange(r1, left_page, 0, r1.size, left_page.size)
                 IN  [pages |-> [tp EXCEPT ![left] = mv.other, ![right] = mv.this],
                      ctx |-> [ctx EXCEPT !.op_type_ = "Remove", !.key_ = ctx.parent_key_]]

MergeLeaf(tp, left, right, ctx) ==
  LET left_page == tp[left]
      right_page == tp[right]
  IN  IF OverHalfFull(left_page)
      THEN LET r1 == LeafInsert(right_page, LastKey(left_page), LastValue(left_page))
           IN  [pages |-> [tp EXCEPT ![right] = r1, ![left] = RemoveLast(left_page)],
                ctx |-> [ctx EXCEPT !.op_type_ = "UpdateKey", !.key_ = r1.array[0].first]]
      ELSE IF OverHalfFull(right_page)
      THEN LET l1 == SetKeyValueAt(left_page, left_page.size, right_page.array[0].first,
                                   right_page.array[0].second)
               r1 == PageRemoveAt(right_page, 0)
           IN  [pages |-> [tp EXCEPT ![left] = l1, ![right] = r1],
                ctx |-> [ctx EXCEPT !.op_type_ = "UpdateKey", !.key_ = r1.array[0].first]]
      ELSE LET mv == LeafMoveRange(right_page, left_page, 0, right_page.size, left_page.size)
           IN  [pages |-> [tp EXCEPT ![left] = [mv.other EXCEPT !.next_page_id = right_page.next_page_id],
                                     ![right] = mv.this],
                ctx |-> [ctx EXCEPT !.op_type_ = "Remove", !.key_ = mv.this.array[0].first]]

\* one turn of Merge's unwinding loop on the last page of the write set
MergeStep(t, ws, ctx, key) ==
  LET id == ws[Len(ws)]
  IN  IF id = header_page_id_
      THEN [t |-> [t EXCEPT !.root = ctx.page_id_], ctx |-> ctx]
      ELSE IF ctx.op_type_ = "UpdateKey" \/ Len(ws) <= 1
              \/ (Len(ws) = 2 /\ ws[1] = header_page_id_)
      THEN IF IsLeafPage(t.pages[id])
           THEN [t |-> [t EXCEPT !.fault = TRUE], ctx |-> ctx]
           ELSE LET m == MergeInternal(t.pages, id, NoPage, ctx)
                IN  [t |-> [t EXCEPT !.pages = m.pages], ctx |-> m.ctx]
      ELSE
        LET parent_page == t.pages[ws[Len(ws) - 1]]
            sib == GetSibling(t.pages, key, parent_page)
        IN  IF ~Live(t.pages, sib.id) \/ t.pages[sib.id].page_type # t.pages[id].page_type
            THEN [t |-> [t EXCEPT !.fault = TRUE], ctx |-> ctx]
            ELSE
              LET left == IF sib.is_left_sib THEN sib.id ELSE id
                  right == IF sib.is_left_sib THEN id ELSE sib.id
                  c1 == [ctx EXCEPT !.parent_key_ =
                           IF sib.is_left_sib
                           THEN parent_page.array[UpperBound(parent_page, key) - 1].first
                           ELSE parent_page.array[UpperBound(parent_page, key)].first]
                  m == IF IsLeafPage(t.pages[id])
                       THEN MergeLeaf(t.pages, left, right, c1)
                       ELSE MergeInternal(t.pages, left, right, c1)
              IN  [t |-> [t EXCEPT !.pages = IF m.ctx.op_type_ = "Remove"
                                              THEN [m.pages EXCEPT ![right] = DeletedPage]
                                              ELSE m.pages],
                   ctx |-> m.ctx]

RECURSIVE MergeUnwind(_, _, _, _)
MergeUnwind(t, ws, ctx, key) ==
  IF ws = <<>> \/ ctx.op_type_ = "Finish" \/ t.fault THEN t
  ELSE LET r == MergeStep(t, ws, ctx, key)
       IN  MergeUnwind(r.t, SubSeq(ws, 1, Len(ws) - 1), r.ctx, key)

Merge(t, ws, key) ==
  IF ~UnderHalfFull(t.pages[ws[Len(ws)]]) THEN t
  ELSE MergeUnwind(t, ws, [page_id_ |-> 0, key_ |-> 0, parent_key_ |-> 0, op_type_ |-> "Remove"], key)

\* IndexIterator : [curr_page_id_, curr_index_, key_value_]
IteratorStart(tp, start_page_id, start_index) ==
  [curr_page_id_ |-> start_page_id, curr_index_ |-> start_index + 1,
   key_value_ |-> tp[start_page_id].array[start_index]]

IteratorTerminate == [curr_page_id_ |-> INVALID_PAGE_ID, curr_index_ |-> 0]

IteratorEquals(a, b) ==
  a.curr_page_id_ = b.curr_page_id_ /\ a.curr_index_ = b.curr_index_

IteratorNext(tp, it) ==
  LET curr_page == tp[it.curr_page_id_]
  IN  IF it.curr_index_ < curr_page.size
      THEN [it EXCEPT !.key_value_ = curr_page.array[it.curr_index_],
                      !.curr_index_ = it.curr_index_ + 1]
      ELSE IF curr_page.next_page_id = INVALID_PAGE_ID
      THEN [it EXCEPT !.curr_page_id_ = INVALID_PAGE_ID, !.curr_index_ = 0]
      ELSE IF ~Live(tp, curr_page.next_page_id)
      THEN [it EXCEPT !.curr_page_id_ = NoPage, !.curr_index_ = 0]
      ELSE [it EXCEPT !.curr_page_id_ = curr_page.next_page_id, !.curr_index_ = 1,
                      !.key_value_ = tp[curr_page.next_page_id].array[0]]

RECURSIVE LeftmostFrom(_, _, _)
LeftmostFrom(tp, id, fuel) ==
  IF fuel = 0 \/ ~Live(tp, id) THEN NoPage
  ELSE IF IsLeafPage(tp[id]) THEN id
  ELSE LeftmostFrom(tp, tp[id].array[0].second, fuel - 1)

\* Begin() : NoPage as the page id when the descent leaves the tree
Begin(tp, root) ==
  LET leaf == LeftmostFrom(tp, root, MaxDepth)
  IN  IF leaf = NoPage
      THEN [curr_page_id_ |-> NoPage, curr_index_ |-> 0, key_value_ |-> [first |-> 0, second |-> 0]]
      ELSE IteratorStart(tp, leaf, 0)

\* Begin(key)
BeginAt(tp, root, key) ==
  LET leaf == FindLeaf(tp, root, key)
  IN  IF leaf = NoPage
      THEN [curr_page_id_ |-> NoPage, curr_index_ |-> 0, key_value_ |-> [first |-> 0, second |-> 0]]
      ELSE IteratorStart(tp, leaf, LowerBound(tp[leaf], key))

ScanFault == [first |-> -1, second |-> -1]

\* for (it = from; it != End(); ++it) yield *it
RECURSIVE ScanFrom(_, _, _)
ScanFrom(tp, it, fuel) ==
  IF IteratorEquals(it, IteratorTerminate) THEN <<>>
  ELSE IF fuel = 0 \/ it.curr_page_id_ = NoPage THEN <<ScanFault>>
  ELSE <<it.key_value_>> \o ScanFrom(tp, IteratorNext(tp, it), fuel - 1)

Scan(tp, root) == ScanFrom(tp, Begin(tp, root), MaxTreePages * ArrayCap)

(***************************************************************************)
(* Calls made one at a time by a single client                             *)
(***************************************************************************)
NoVal == 0

TreeReturn(op, key, result) == tree_call' = [op |-> op, key |-> key, result |-> result]

TreeFault(op, key) ==
  /\ tree_status' = "fault"
  /\ TreeReturn(op, key, "none")
  /\ UNCHANGED <<tree_pages, root_page_id_, tree_next_page_id, tree_map>>

\* a call that retries itself with nothing changed never returns
TreeHang(op, key) ==
  /\ tree_status' = "hung"
  /\ TreeReturn(op, key, "none")
  /\ UNCHANGED <<tree_pages, root_page_id_, tree_next_page_id, tree_map>>

BPlusTreeInsert(key, value) ==
  /\ tree_status = "ok"
  /\ UNCHANGED treeConfig
  /\ \E leaf \in {FindLeaf(tree_pages, root_page_id_, key)} :
       IF leaf = NoPage THEN TreeFault("Insert", key)
       ELSE IF HasValue(tree_pages[leaf], key)
       THEN /\ TreeReturn("Insert", key, "false")
            /\ UNCHANGED <<tree_pages, root_page_id_, tree_next_page_id, tree_status, tree_map>>
       ELSE IF IsFull(tree_pages[leaf]) THEN TreeHang("Insert", key)
       ELSE \E tp \in {[tree_pages EXCEPT ![leaf] = LeafInsert(@, key, value)]} :
              /\ TreeReturn("Insert", key, "true")
              /\ tree_map' = [tree_map EXCEPT ![key] = value]
              /\ UNCHANGED tree_status
              /\ IF IsFull(tp[leaf])
                 THEN \E ws \in {WriteSet(tp, root_page_id_, key, TRUE)} :
                        /\ tree_next_page_id + Len(ws) <= MaxTreePages + 1
                        /\ \E t \in {Split([pages |-> tp, root |-> root_page_id_,
                                            next |-> tree_next_page_id], ws)} :
                             /\ tree_pages' = t.pages
                             /\ root_page_id_' = t.root
                             /\ tree_next_page_id' = t.next
                 ELSE /\ tree_pages' = tp
                      /\ UNCHANGED <<root_page_id_, tree_next_page_id>>

BPlusTreeRemove(key) ==
  /\ tree_status = "ok"
  /\ UNCHANGED treeConfig
  /\ IF ~Live(tree_pages, root_page_id_) THEN TreeFault("Remove", key)
     ELSE IF tree_pages[root_page_id_].size = 0
     THEN /\ TreeReturn("Remove", key, "void")
          /\ tree_map' = [tree_map EXCEPT ![key] = NoVal]
          /\ UNCHANGED <<tree_pages, root_page_id_, tree_next_page_id, tree_status>>
     ELSE \E leaf \in {FindLeaf(tree_pages, root_page_id_, key)} :
       IF leaf = NoPage THEN TreeFault("Remove", key)
       ELSE IF ~HasValue(tree_pages[leaf], key)
       THEN /\ TreeReturn("Remove", key, "void")
            /\ tree_map' = [tree_map EXCEPT ![key] = NoVal]
            /\ UNCHANGED <<tree_pages, root_page_id_, tree_next_page_id, tree_status>>
       ELSE IF leaf # root_page_id_ /\ UnderHalfFull(tree_pages[leaf])
       THEN TreeHang("Remove", key)
       ELSE \E tp \in {[tree_pages EXCEPT ![leaf] = LeafRemove(@, key)]} :
              /\ TreeReturn("Remove", key, "void")
              /\ tree_map' = [tree_map EXCEPT ![key] = NoVal]
              /\ UNCHANGED tree_next_page_id
              /\ IF leaf # root_page_id_ /\ UnderHalfFull(tp[leaf])
                 THEN \E t \in {Merge([pages |-> tp, root |-> root_page_id_, fault |-> FALSE],
                                      WriteSet(tp, root_page_id_, key, FALSE), key)} :
                        /\ tree_pages' = t.pages
                        /\ root_page_id_' = t.root
                        /\ tree_status' = IF t.fault THEN "fault" ELSE "ok"
                 ELSE /\ tree_pages' = tp
                      /\ UNCHANGED <<root_page_id_, tree_status>>

(***************************************************************************)
(* B+ TREE UNDER CONCURRENT CALLS                                          *)
(* Every thread runs the code of Insert, Remove and GetValue on keys of    *)
(* its own; a step of a thread is one FetchPageRead / FetchPageWrite (it   *)
(* waits until the page latch can be taken) together with what the thread  *)
(* does until its next fetch.                                              *)
(***************************************************************************)
MaxConcKey == 3

MaxConcOps == 4

ThreadKeys(t) == {k \in 1 .. MaxConcKey : k % NumThreads = t % NumThreads}

ConcTreeConfig == {<<2, 3>>}

LatchIds == 0 .. MaxTreePages

NoCall == [op |-> "none", key |-> 0, result |-> "none", value |-> 0]

IdleThread ==
  [pc |-> "idle", op |-> "none", key |-> 0, value |-> 0, target |-> NoPage,
   guard |-> NoPage, root |-> NoPage, ws |-> <<>>,
   ctx |-> [page_id_ |-> 0, key_ |-> 0, parent_key_ |-> 0, op_type_ |-> "Remove"],
   sib |-> NoPage, last |-> NoCall]

\* ReaderWriterLatch of a page: std::shared_mutex
CanRLatch(id) == tree_latches[id].writer = NoThread

CanWLatch(id) == tree_latches[id].writer = NoThread /\ tree_latches[id].readers = 0

RLatch(lt, id) == [lt EXCEPT ![id].readers = @ + 1]

RUnlatch(lt, id) == [lt EXCEPT ![id].readers = @ - 1]

WLatch(lt, id, t) == [lt EXCEPT ![id].writer = t]

\* no WritePageGuard is dropped
WUnlatchNone(lt, ids) == lt

\* drops every WritePageGuard of the pages in ids
WUnlatchAll(lt, ids) ==
  [id \in LatchIds |-> IF id \in ids THEN [lt[id] EXCEPT !.writer = NoThread] ELSE lt[id]]

Range(s) == {s[i] : i \in 1 .. Len(s)}

\* the call of thread t returns
Return(t, result, value) ==
  LET th == tree_threads[t]
  IN  /\ tree_threads' = [tree_threads EXCEPT ![t] =
           [IdleThread EXCEPT !.last = [op |-> th.op, key |-> th.key,
                                        result |-> result, value |-> value]]]
      /\ tree_map' = IF th.op = "Insert" /\ result = "true"
                     THEN [tree_map EXCEPT ![th.key] = th.value]
                     ELSE IF th.op = "Remove" THEN [tree_map EXCEPT ![th.key] = NoVal]
                     ELSE tree_map

\* the thread fetched a page that is deleted or is not an index page
ThreadFault(t) ==
  /\ tree_status' = "fault"
  /\ UNCHANGED <<tree_pages, root_page_id_, tree_next_page_id, tree_map,
                 tree_threads, tree_latches>>

\* a client thread calls Insert, Remove or GetValue
ThreadCall(t, op, key, value) ==
  /\ tree_status = "ok"
  /\ tree_threads[t].pc = "idle"
  /\ tree_threads' = [tree_threads EXCEPT ![t] =
       [IdleThread EXCEPT !.pc = IF op = "GetValue" THEN "gv_header" ELSE "rd_header",
                          !.op = op, !.key = key, !.value = value,
                          !.last = tree_threads[t].last]]
  /\ UNCHANGED <<tree_pages, root_page_id_, tree_next_page_id, tree_status, tree_map,
                 tree_latches>>

\* Insert / Remove: FetchPageRead(header_page_id_)
ReadHeader(t) ==
  /\ tree_status = "ok"
  /\ tree_threads[t].pc \in {"rd_header", "gv_header"}
  /\ CanRLatch(header_page_id_)
  /\ tree_latches' = RLatch(tree_latches, header_page_id_)
  /\ tree_threads' = [tree_threads EXCEPT ![t].guard = header_page_id_,
                                          ![t].target = root_page_id_,
                                          ![t].root = root_page_id_,
                                          ![t].pc = IF @ = "rd_header" THEN "rd_page" ELSE "gv_page"]
  /\ UNCHANGED <<tree_pages, root_page_id_, tree_next_page_id, tree_status, tree_map>>

\* Insert / Remove: FetchPageRead of the root or of a child, then the loop
\* head: an internal page takes over as guard, a leaf is dropped again
ReadPage(t) ==
  LET th == tree_threads[t]
      id == th.target
  IN  /\ tree_status = "ok"
      /\ th.pc = "rd_page"
      /\ id \in LatchIds /\ CanRLatch(id)
      /\ IF ~Live(tree_pages, id) THEN ThreadFault(t)
         ELSE /\ UNCHANGED <<tree_pages, root_page_id_, tree_next_page_id, tree_status>>
              /\ IF th.op = "Remove" /\ th.guard = header_page_id_ /\ tree_pages[id].size = 0
                 THEN /\ tree_latches' = RUnlatch(tree_latches, th.guard)
                      /\ Return(t, "void", 0)
                 ELSE IF ~IsLeafPage(tree_pages[id])
                 THEN /\ tree_latches' = RLatch(RUnlatch(tree_latches, th.guard), id)
                      /\ tree_threads' = [tree_threads EXCEPT
                           ![t].guard = id,
                           ![t].target = InternalGetValue(tree_pages[id], th.key)]
                      /\ UNCHANGED tree_map
                 ELSE /\ tree_threads' = [tree_threads EXCEPT ![t].pc = "rd_leaf"]
                      /\ UNCHANGED <<tree_latches, tree_map>>

\* Insert / Remove: FetchPageWrite(leaf), guard.Drop(), and the work on the leaf
WriteLeaf(t) ==
  LET th == tree_threads[t]
      id == th.target
      leaf_page == tree_pages[id]
      dropped == RUnlatch(tree_latches, th.guard)
  IN  /\ tree_status = "ok"
      /\ th.pc = "rd_leaf"
      /\ CanWLatch(id)
      /\ tree_latches' = dropped
      /\ UNCHANGED <<root_page_id_, tree_next_page_id, tree_status>>
      /\ IF th.op = "Insert"
         THEN IF HasValue(leaf_page, th.key)
              THEN Return(t, "false", 0) /\ UNCHANGED tree_pages
              ELSE IF IsFull(leaf_page)
              THEN /\ tree_threads' = [tree_threads EXCEPT ![t].pc = "rd_header",
                                                           ![t].guard = NoPage]
                   /\ UNCHANGED <<tree_pages, tree_map>>
              ELSE \E p \in {LeafInsert(leaf_page, th.key, th.value)} :
                     /\ tree_pages' = [tree_pages EXCEPT ![id] = p]
                     /\ IF IsFull(p)
                        THEN /\ tree_threads' = [tree_threads EXCEPT ![t].pc = "wr_header",
                                                                     ![t].guard = NoPage]
                             /\ UNCHANGED tree_map
                        ELSE Return(t, "true", 0)
         ELSE IF ~HasValue(leaf_page, th.key)
              THEN Return(t, "void", 0) /\ UNCHANGED tree_pages
              ELSE IF id # th.root /\ UnderHalfFull(leaf_page)
              THEN /\ tree_threads' = [tree_threads EXCEPT ![t].pc = "rd_header",
                                                           ![t].guard = NoPage]
                   /\ UNCHANGED <<tree_pages, tree_map>>
              ELSE \E p \in {LeafRemove(leaf_page, th.key)} :
                     /\ tree_pages' = [tree_pages EXCEPT ![id] = p]
                     /\ IF id # th.root /\ UnderHalfFull(p)
                        THEN /\ tree_threads' = [tree_threads EXCEPT ![t].pc = "wr_header",
                                                                     ![t].guard = NoPage]
                             /\ UNCHANGED tree_map
                        ELSE Return(t, "void", 0)

\* Split / Merge: FetchPageWrite(header_page_id_)
WriteHeader(t) ==
  /\ tree_status = "ok"
  /\ tree_threads[t].pc = "wr_header"
  /\ CanWLatch(header_page_id_)
  /\ tree_latches' = WLatch(tree_latches, header_page_id_, t)
  /\ tree_threads' = [tree_threads EXCEPT ![t].ws = <<header_page_id_>>,
                                          ![t].target = root_page_id_,
                                          ![t].pc = "wr_page"]
  /\ UNCHANGED <<tree_pages, root_page_id_, tree_next_page_id, tree_status, tree_map>>

\* Split / Merge: FetchPageWrite of the root or of a child on the way down;
\* at the leaf Split unwinds (it fetches no other page), Merge starts its loop
WritePage(t) ==
  LET th == tree_threads[t]
      id == th.target
      ws == Append(th.ws, id)
  IN  /\ tree_status = "ok"
      /\ th.pc = "wr_page"
      /\ id \in LatchIds /\ CanWLatch(id)
      /\ IF ~Live(tree_pages, id) THEN ThreadFault(t)
         ELSE IF ~IsLeafPage(tree_pages[id])
         THEN \E kept \in {IF (th.op = "Insert" /\ ~IsFull(tree_pages[id]))
                              \/ (th.op = "Remove" /\ OverHalfFull(tree_pages[id]))
                           THEN <<id>> ELSE ws} :
                /\ tree_latches' = WLatch(WUnlatchAll(tree_latches, Range(ws) \ Range(kept)), id, t)
                /\ tree_threads' = [tree_threads EXCEPT
                     ![t].ws = kept,
                     ![t].target = InternalGetValue(tree_pages[id], th.key)]
                /\ UNCHANGED <<tree_pages, root_page_id_, tree_next_page_id, tree_status, tree_map>>
         ELSE IF th.op = "Insert"
         THEN /\ tree_latches' = WUnlatchAll(tree_latches, Range(ws))
              /\ UNCHANGED tree_status
              /\ Return(t, "true", 0)
              /\ tree_next_page_id + Len(ws) <= MaxTreePages + 1
              /\ \E s \in {Split([pages |-> tree_pages, root |-> root_page_id_,
                                  next |-> tree_next_page_id], ws)} :
                   /\ tree_pages' = s.pages
                   /\ root_page_id_' = s.root
                   /\ tree_next_page_id' = s.next
         ELSE /\ UNCHANGED <<tree_pages, root_page_id_, tree_next_page_id, tree_status>>
              /\ IF ~UnderHalfFull(tree_pages[id])
                 THEN /\ tree_latches' = WUnlatchAll(tree_latches, Range(ws))
                      /\ Return(t, "void", 0)
                 ELSE /\ tree_latches' = WLatch(tree_latches, id, t)
                      /\ tree_threads' = [tree_threads EXCEPT ![t].ws = ws,
                                                              ![t].pc = "mg_turn"]
                      /\ UNCHANGED tree_map

\* does this turn of Merge's loop call GetSibling
NeedsSibling(th) ==
  /\ th.ws # <<>> /\ th.ctx.op_type_ # "Finish"
  /\ th.ws[Len(th.ws)] # header_page_id_
  /\ ~(th.ctx.op_type_ = "UpdateKey" \/ Len(th.ws) <= 1
        \/ (Len(th.ws) = 2 /\ th.ws[1] = header_page_id_))

\* the turns of Merge's loop that fetch no page, and the end of Merge
MergeTurn(t) ==
  LET th == tree_threads[t]
  IN  /\ tree_status = "ok"
      /\ th.pc = "mg_turn"
      /\ UNCHANGED tree_next_page_id
      /\ IF th.ws = <<>> \/ th.ctx.op_type_ = "Finish"
         THEN /\ tree_latches' = WUnlatchAll(tree_latches, Range(th.ws))
              /\ Return(t, "void", 0)
              /\ UNCHANGED <<tree_pages, root_page_id_, tree_status>>
         ELSE IF NeedsSibling(th)
         THEN \E parent_page \in {tree_pages[th.ws[Len(th.ws) - 1]]} :
              \E index \in {UpperBound(parent_page, th.key) - 1} :
                IF index = 0 /\ index = parent_page.size - 1
                THEN ThreadFault(t)
                ELSE /\ tree_threads' = [tree_threads EXCEPT
                          ![t].pc = "mg_sibling",
                          ![t].sib = NoPage,
                          ![t].target = IF index = 0
                                        THEN parent_page.array[index + 1].second
                                        ELSE parent_page.array[index - 1].second]
                     /\ UNCHANGED <<tree_pages, root_page_id_, tree_status, tree_map, tree_latches>>
         ELSE \E r \in {MergeStep([pages |-> tree_pages, root |-> root_page_id_, fault |-> FALSE],
                                  th.ws, th.ctx, th.key)} :
                /\ tree_pages' = r.t.pages
                /\ root_page_id_' = r.t.root
                /\ tree_status' = IF r.t.fault THEN "fault" ELSE "ok"
                /\ tree_latches' = WUnlatchAll(tree_latches, {th.ws[Len(th.ws)]})
                /\ tree_threads' = [tree_threads EXCEPT
                     ![t].ws = SubSeq(th.ws, 1, Len(th.ws) - 1),
                     ![t].ctx = r.ctx]
                /\ UNCHANGED tree_map

\* GetSibling's FetchPageWrite calls (the left sibling, and for a middle
\* child the right one as well), then the rest of the turn
MergeSibling(t) ==
  LET th == tree_threads[t]
      id == th.target
      parent_page == tree_pages[th.ws[Len(th.ws) - 1]]
      index == UpperBound(parent_page, th.key) - 1
  IN  /\ tree_status = "ok"
      /\ th.pc = "mg_sibling"
      /\ UNCHANGED tree_next_page_id
      /\ id \in LatchIds /\ CanWLatch(id)
      /\ IF ~Live(tree_pages, id) THEN ThreadFault(t)
         ELSE IF index # 0 /\ index # parent_page.size - 1 /\ th.sib = NoPage
         THEN /\ tree_latches' = WLatch(tree_latches, id, t)
              /\ tree_threads' = [tree_threads EXCEPT
                   ![t].sib = id,
                   ![t].target = parent_page.array[index + 1].second]
              /\ UNCHANGED <<tree_pages, root_page_id_, tree_status, tree_map>>
         ELSE \E r \in {MergeStep([pages |-> tree_pages, root |-> root_page_id_, fault |-> FALSE],
                                  th.ws, th.ctx, th.key)} :
                /\ tree_pages' = r.t.pages
                /\ root_page_id_' = r.t.root
                /\ tree_status' = IF r.t.fault THEN "fault" ELSE "ok"
                /\ tree_latches' = WUnlatchAll(tree_latches, {th.ws[Len(th.ws)], th.sib} \ {NoPage})
                /\ tree_threads' = [tree_threads EXCEPT
                     ![t].ws = SubSeq(th.ws, 1, Len(th.ws) - 1),
                     ![t].ctx = r.ctx,
                     ![t].sib = NoPage,
                     ![t].pc = "mg_turn"]
                /\ UNCHANGED tree_map

\* GetValue: FetchPageRead of the root or of a child; the guard of the
\* parent is released by the assignment
LookupPage(t) ==
  LET th == tree_threads[t]
      id == th.target
  IN  /\ tree_status = "ok"
      /\ th.pc = "gv_page"
      /\ id \in LatchIds /\ CanRLatch(id)
      /\ IF ~Live(tree_pages, id) THEN ThreadFault(t)
         ELSE /\ UNCHANGED <<tree_pages, root_page_id_, tree_next_page_id, tree_status>>
              /\ IF IsLeafPage(tree_pages[id])
                 THEN /\ tree_latches' = RUnlatch(tree_latches, th.guard)
                      /\ Return(t, IF LeafGetValue(tree_pages[id], th.key).found
                                   THEN "true" ELSE "false",
                                LeafGetValue(tree_pages[id], th.key).value)
                 ELSE /\ tree_latches' = RLatch(RUnlatch(tree_latches, th.guard), id)
                      /\ tree_threads' = [tree_threads EXCEPT
                           ![t].guard = id,
                           ![t].target = InternalGetValue(tree_pages[id], th.key)]
                      /\ UNCHANGED tree_map

StartThreads ==
  /\ tree_threads = [t \in Threads |-> IdleThread]
  /\ tree_latches = [id \in LatchIds |-> [readers |-> 0, writer |-> NoThread]]

ThreadStep(A) == A /\ UNCHANGED <<treeConfig, tree_call, tree_ops, lmVars, poolVars>>

\* BPlusTree::BPlusTree, with the page sizes the tree is configured with
StartTree(configs) ==
  /\ \E c \in configs :
       /\ leaf_max_size_ = c[1]
       /\ internal_max_size_ = c[2]
       /\ tree_pages = [id \in TreePageIds |->
                          IF id = 1 THEN LeafInit(ZeroIndexPage, c[1]) ELSE ZeroIndexPage]
  /\ root_page_id_ = 1
  /\ tree_depth_ = 0
  /\ tree_next_page_id = 2
  /\ tree_status = "ok"
  /\ tree_map = [k \in Keys |-> NoVal]
  /\ tree_call = [op |-> "none", key |-> 0, result |-> "none"]
  /\ tree_ops = 0
  /\ StartThreads

TreeCall(A) ==
  /\ tree_ops < MaxTreeOps /\ A /\ tree_ops' = tree_ops + 1
  /\ UNCHANGED <<lmVars, poolVars, tree_threads, tree_latches>>

NextTree ==
  \/ \E k \in Keys, v \in Vals : TreeCall(BPlusTreeInsert(k, v))
  \/ \E k \in Keys : TreeCall(BPlusTreeRemove(k))

NextTreeConc ==
  \/ \E t \in Threads, k \in Keys, v \in Vals :
       /\ k \in ThreadKeys(t) /\ tree_ops < MaxConcOps
       /\ ThreadCall(t, "Insert", k, v)
       /\ tree_ops' = tree_ops + 1 /\ UNCHANGED <<treeConfig, tree_call, lmVars, poolVars>>
  \/ \E t \in Threads, k \in Keys :
       /\ k \in ThreadKeys(t) /\ tree_ops < MaxConcOps
       /\ ThreadCall(t, "Remove", k, 0)
       /\ tree_ops' = tree_ops + 1 /\ UNCHANGED <<treeConfig, tree_call, lmVars, poolVars>>
  \/ \E t \in Threads, k \in Keys :
       /\ k \in ThreadKeys(t) /\ tree_ops < MaxConcOps
       /\ ThreadCall(t, "GetValue", k, 0)
       /\ tree_ops' = tree_ops + 1 /\ UNCHANGED <<treeConfig, tree_call, lmVars, poolVars>>
  \/ \E t \in Threads : ThreadStep(ReadHeader(t))
  \/ \E t \in Threads : ThreadStep(ReadPage(t))
  \/ \E t \in Threads : ThreadStep(WriteLeaf(t))
  \/ \E t \in Threads : ThreadStep(WriteHeader(t))
  \/ \E t \in Threads : ThreadStep(WritePage(t))
  \/ \E t \in Threads : ThreadStep(MergeTurn(t))
  \/ \E t \in Threads : ThreadStep(MergeSibling(t))
  \/ \E t \in Threads : ThreadStep(LookupPage(t))

(***************************************************************************)
(* SPECIFICATIONS                                                          *)
(***************************************************************************)
RepeatableRead == {[t \in Txns |-> "REPEATABLE_READ"]}

OneTreeConfig == {<<4, 4>>}

InitLM == StartLM(IsolationChoices) /\ StartBPM /\ StartTree(OneTreeConfig)

SpecLM == InitLM /\ [][NextLM]_vars

InitLMFair == StartLM(RepeatableRead) /\ StartBPM /\ StartTree(OneTreeConfig)

SpecLMFair == InitLMFair /\ [][NextLMFair]_vars /\ FairLM

InitBPM == StartLM(RepeatableRead) /\ StartBPM /\ StartTree(OneTreeConfig)

SpecBPM == InitBPM /\ [][NextBPM]_vars

InitTree == StartLM(RepeatableRead) /\ StartBPM /\ StartTree(TreeConfigs)

SpecTree == InitTree /\ [][NextTree]_vars

\* a tree whose internal pages hold up to 5 entries: a root with 3 children is
\* not over half full
WideTreeConfig == {<<2, 5>>}

InitTreeWide == StartLM(RepeatableRead) /\ StartBPM /\ StartTree(WideTreeConfig)

SpecTreeWide == InitTreeWide /\ [][NextTree]_vars

InitPool == StartLM(RepeatableRead) /\ StartPool(PoolFrames, PoolPages) /\ StartTree(OneTreeConfig)

SpecPool == InitPool /\ [][NextPool]_vars

InitReplacer ==
  /\ StartLM(RepeatableRead)
  /\ \E k \in ReplacerKs : StartPoolK(ReplacerFrames, PoolPages, k)
  /\ StartTree(OneTreeConfig)

SpecReplacer == InitReplacer /\ [][NextReplacer]_vars

\* the replacer constructed with any k from 1 on
AnyKs == {1} \cup ReplacerKs

InitReplacerAnyK ==
  /\ StartLM(RepeatableRead)
  /\ \E k \in AnyKs : StartPoolK(ReplacerFrames, PoolPages, k)
  /\ StartTree(OneTreeConfig)

SpecReplacerAnyK == InitReplacerAnyK /\ [][NextReplacer]_vars

SpecPoolConc == InitPool /\ [][NextPoolConc]_vars

SpecFetchConc == InitPool /\ [][NextFetchConc]_vars

InitTreeConc == StartLM(RepeatableRead) /\ StartBPM /\ StartTree(ConcTreeConfig)

SpecTreeConc == InitTreeConc /\ [][NextTreeConc]_vars

(***************************************************************************)
(* CLAIMS                                                                  *)
(***************************************************************************)
Held(t) == shared_set[t] \cup excl_set[t]

\* C1: no two distinct transactions that are not ABORTED hold a lock on the
\* same rid with at least one of the two locks exclusive.
C1_MutualExclusion ==
  \A r \in Rids : \A t1, t2 \in Txns :
    (t1 # t2 /\ txn_state[t1] # "ABORTED" /\ txn_state[t2] # "ABORTED"
       /\ r \in Held(t1) /\ r \in Held(t2))
    => (r \notin excl_set[t1] /\ r \notin excl_set[t2])

Blocking == {"towait", "waiting", "woken"}

\* The older transaction t1 is inside a lock call on r that cannot be granted
\* while a conflicting request of the younger t2 stands ahead of its own in
\* the queue of r (granted, queued ahead, or moved ahead by an upgrade).
BlockedBehind(t1, t2, r) ==
  LET q  == lock_table[r]
      me == Find(q, t1)
  IN  /\ t1 < t2
      /\ lm_pc[t1].at \in Blocking /\ lm_pc[t1].rid = r
      /\ txn_state[t1] # "ABORTED" /\ txn_state[t2] # "ABORTED"
      /\ me <= Len(q)
      /\ \E i \in 1..(me - 1) :
            q[i].txn_id_ = t2 /\ HasConflict(q[me].lock_mode_, q[i].lock_mode_)

\* C6: wound-wait progress, for the two youngest transactions (any older
\* transaction is there to hold the rid first).  Whenever the older one is
\* blocked behind a conflicting request of the younger one, eventually the
\* older one stops waiting (its request is granted, or its call returns) or
\* the younger one is ABORTED.
C6_WoundWaitProgress ==
  \A r \in Rids :
    BlockedBehind(NumTxns - 1, NumTxns, r) ~>
      (lm_pc[NumTxns - 1].at \notin Blocking \/ txn_state[NumTxns] = "ABORTED")

Resident(p) == page_table[p] # NoFrame

\* C2: a page that was written, unpinned dirty and never flushed holds, once
\* its frame was reused and the page was read back in, the bytes it was
\* unpinned with, whatever the background workers have run by then.
C2_RoundTrip ==
  \A p \in PageIds :
    (Resident(p) /\ p \in refetched /\ p \notin flushed /\ durable[p] # Unknown)
    => pages[page_table[p]].data_ = durable[p]

\* A page written with non-zero bytes came back while the disk did not hold
\* those bytes yet: the read was served from the queued write.
C2_Witness ==
  \E p \in PageIds :
    /\ Resident(p) /\ p \in refetched /\ p \notin flushed
    /\ durable[p] # Unknown /\ durable[p] # ZeroPage
    /\ pages[page_table[p]].data_ = durable[p]
    /\ disk[p] # durable[p]

\* C5: a page that was written, unpinned dirty and flushed holds, once its
\* frame was reused and the page was read back in, the bytes that were
\* flushed, wherever the queued writes stand relative to the FlushPage.
C5_FlushRoundTrip ==
  \A p \in PageIds :
    (Resident(p) /\ p \in refetched /\ p \in flushed /\ durable[p] # Unknown)
    => pages[page_table[p]].data_ = durable[p]

Lookup(k) == BPlusTreeGetValue(tree_pages, root_page_id_, k)

\* C3: the tree is a map.  While every call has returned, GetValue(K)
\* finds K exactly when K was inserted and not removed since, and then
\* returns the value of the latest successful Insert(K, .).
C3_MapRefinement ==
  tree_status = "ok" =>
    \A k \in Keys :
      /\ ~Lookup(k).fault
      /\ Lookup(k).found = (tree_map[k] # NoVal)
      /\ Lookup(k).found => Lookup(k).value = tree_map[k]

\* C7: a Remove(K) that follows an Insert(K, .) returns and leaves
\* GetValue(K) not found; a Remove(K) of a key GetValue does not find
\* returns and changes no page of the tree.
C7_RemoveThenAbsent ==
  [][(tree_ops' = tree_ops + 1 /\ tree_call'.op = "Remove") =>
       /\ (tree_call.op = "Insert" /\ tree_call.key = tree_call'.key) =>
            /\ tree_status' = "ok"
            /\ ~BPlusTreeGetValue(tree_pages', root_page_id_', tree_call'.key).fault
            /\ ~BPlusTreeGetValue(tree_pages', root_page_id_', tree_call'.key).found
       /\ (~Lookup(tree_call'.key).fault /\ ~Lookup(tree_call'.key).found) =>
            /\ tree_status' = "ok"
            /\ tree_pages' = tree_pages
            /\ root_page_id_' = root_page_id_]_vars

\* C8: an Insert(K, V2) of a key that was inserted and not removed since
\* returns false and changes no page, the root pointer and the page
\* allocator included.
C8_DuplicateInsert ==
  [][(tree_ops' = tree_ops + 1 /\ tree_call'.op = "Insert" /\ tree_map[tree_call'.key] # NoVal) =>
       /\ tree_call'.result = "false"
       /\ tree_status' = "ok"
       /\ tree_pages' = tree_pages
       /\ root_page_id_' = root_page_id_
       /\ tree_next_page_id' = tree_next_page_id]_vars

\* the pages a descent from the root can reach through the live slots of
\* internal pages
RECURSIVE PagesBelow(_, _)
PagesBelow(ids, fuel) ==
  IF fuel = 0 THEN ids
  ELSE PagesBelow(ids \cup UNION {{tree_pages[id].array[i].second : i \in 0 .. tree_pages[id].size - 1} :
                                    id \in {x \in ids : Live(tree_pages, x) /\ ~IsLeafPage(tree_pages[x])}},
                  fuel - 1)

\* C9: while every call has returned, every page of the tree below the
\* root has ceil(max / 2) <= size <= max.
C9_PageSizes ==
  tree_status = "ok" =>
    \A id \in PagesBelow({root_page_id_}, MaxDepth) \ {root_page_id_} :
      Live(tree_pages, id) =>
        /\ GetMinSize(tree_pages[id]) <= tree_pages[id].size
        /\ tree_pages[id].size <= tree_pages[id].max_size

RECURSIVE Contents(_)
Contents(k) ==
  IF k > MaxKey THEN <<>>
  ELSE (IF tree_map[k] # NoVal THEN <<[first |-> k, second |-> tree_map[k]]>> ELSE <<>>)
       \o Contents(k + 1)

\* C10: while every call has returned, the entries an iterator yields
\* from Begin() until it equals End() are exactly the keys inserted and
\* not removed since, each once, in ascending order.
C10_FullScan ==
  tree_status = "ok" => Scan(tree_pages, root_page_id_) = Contents(1)

\* C4: threads calling Insert, Remove and GetValue on keys of their own: no
\* call reads a page that is not an index page of the tree, and whenever no
\* call is in progress the tree holds what the calls, run one after another,
\* leave behind: a lookup finds exactly the keys inserted and not removed,
\* with their values, a scan of a non-empty tree from Begin() yields them in
\* ascending order, and the last GetValue of each thread found what the
\* thread had inserted.
AllIdle == \A t \in Threads : tree_threads[t].pc = "idle"

C4_ConcurrentCalls ==
  /\ tree_status = "ok"
  /\ AllIdle =>
       /\ \A k \in Keys :
            /\ ~Lookup(k).fault
            /\ Lookup(k).found <=> tree_map[k] # NoVal
            /\ Lookup(k).found => Lookup(k).value = tree_map[k]
       /\ (\E k \in Keys : tree_map[k] # NoVal) => Scan(tree_pages, root_page_id_) = Contents(1)
       /\ \A t \in Threads :
            tree_threads[t].last.op = "GetValue" =>
              /\ (tree_threads[t].last.result = "true") <=> tree_map[tree_threads[t].last.key] # NoVal
              /\ tree_threads[t].last.result = "true" =>
                   tree_threads[t].last.value = tree_map[tree_threads[t].last.key]

\* C11: in a tree that holds at least one key, for every key K the entries an
\* iterator yields from Begin(K) until it equals End() are exactly the
\* entries with a key >= K, in ascending order (none when K is greater than
\* every key of the tree).
C11_RangeScan ==
  (tree_status = "ok" /\ \E k \in Keys : tree_map[k] # NoVal) =>
    \A K \in Keys :
      ScanFrom(tree_pages, BeginAt(tree_pages, root_page_id_, K), MaxTreePages * ArrayCap)
        = Contents(K)

\* no frame can be had: the free list is empty and nothing is evictable
Exhausted == free_list = <<>> /\ Size(replacer) = 0

AllPinned == \A f \in Frames : pages[f].pin_count_ > 0

\* C12: NewPage, and FetchPage of a page that is not resident, return null
\* exactly when the free list is empty and the replacer has no evictable
\* frame, which is exactly when every frame is pinned; in such a state no
\* call allocates a page id or changes the page table or the free list.
C12_PoolExhaustion ==
  /\ [](/\ ~AcquireFrame.ok <=> Exhausted
        /\ Exhausted <=> AllPinned)
  /\ [][Exhausted => /\ next_page_id' = next_page_id
                      /\ page_table' = page_table
                      /\ free_list' = free_list]_vars

\* pool_size NewPage calls pinned every frame, one UnpinPage let a further
\* NewPage succeed, and the pool is exhausted again
C12_Witness == Exhausted /\ next_page_id = PoolFrames + 1

\* membership in free_list_
InFreeList(fl, f) == \E i \in 1 .. Len(fl) : fl[i] = f

\* C13: a frame that holds a page is evictable in the replacer if and only if
\* its pin-count is 0, and no step gives a frame whose pin-count is greater
\* than 0 to another page, takes its page out of the page table or puts the
\* frame on the free list.
C13_PinnedNeverEvicted ==
  /\ [](\A f \in Frames :
          pages[f].page_id_ # INVALID_PAGE_ID =>
            /\ replacer.node_store_[f].present
            /\ replacer.node_store_[f].is_evictable_ <=> pages[f].pin_count_ = 0)
  /\ [][\A f \in Frames :
          pages[f].pin_count_ > 0 =>
            /\ pages'[f].page_id_ = pages[f].page_id_
            /\ page_table'[pages[f].page_id_] = f
            /\ ~InFreeList(free_list', f)]_vars

\* page 1 was evicted for page 2 while page 0 stayed pinned in its frame
C13_Witness ==
  /\ next_page_id = 3
  /\ page_table[1] = NoFrame
  /\ page_table[0] # NoFrame
  /\ pages[page_table[0]].pin_count_ > 0

\* C14: the page table maps page id p to frame f if and only if frame f's
\* page id is p (so no page id is resident in two frames and an evicted or
\* deleted page id has no entry), and no frame on the free list is the target
\* of an entry.
C14_PageTableConsistent ==
  /\ \A p \in PageIds, f \in Frames : page_table[p] = f <=> pages[f].page_id_ = p
  /\ \A p \in PageIds : ~InFreeList(free_list, page_table[p])

\* page 2 is resident after one earlier page was evicted or deleted and the
\* frame of the other was freed by DeletePage
C14_Witness ==
  /\ next_page_id = 3
  /\ page_table[2] # NoFrame
  /\ page_table[0] = NoFrame /\ page_table[1] = NoFrame
  /\ Len(free_list) = 1

\* BufferPoolManager::pool_size_
pool_size_ == Cardinality(Frames)

\* C15: pool_size minus the number of frames with a pin-count greater than 0
\* equals the length of the free list plus the replacer's Size().
C15_FrameAccounting ==
  pool_size_ - Cardinality({f \in Frames : pages[f].pin_count_ > 0})
    = Len(free_list) + Size(replacer)

\* after a DeletePage and three NewPage calls: one frame pinned, one evictable
C15_Witness ==
  /\ next_page_id = 3
  /\ free_list = <<>>
  /\ Size(replacer) = 1
  /\ \E p \in PageIds : page_table[p] = NoFrame /\ durable[p] = Unknown /\ p < next_page_id

\* the sum of the pin-counts of the frames fs
RECURSIVE PinTotal(_, _)
PinTotal(pg, fs) ==
  IF fs = {} THEN 0
  ELSE LET f == CHOOSE g \in fs : TRUE
       IN  pg[f].pin_count_ + PinTotal(pg, fs \ {f})

\* C16 as stated: the sum of the pin-counts of all frames is at most pool_size.
C16_PinCountBound == PinTotal(pages, Frames) <= pool_size_

\* C16 amended: a pin-count counts the holders of a page, so only the number
\* of pinned frames is bounded by pool_size; no pin-count is negative, and a
\* step changes the sum of the pin-counts by one at most (one up for a NewPage
\* or FetchPage that returns a frame, one down for an UnpinPage that returns
\* true).
C16_PinCounts ==
  /\ [](/\ \A f \in Frames : pages[f].pin_count_ >= 0
        /\ Cardinality({f \in Frames : pages[f].pin_count_ > 0}) <= pool_size_)
  /\ [][PinTotal(pages', Frames) - PinTotal(pages, Frames) \in {-1, 0, 1}]_vars

\* two pinned pages in a pool of two frames, one of them pinned twice
C16_Witness == PinTotal(pages, Frames) = pool_size_ + 1 /\ pool_size_ = PoolFrames

\* C17: from the moment NewPage gives up latch_ until the caller uses the
\* frame, with other threads in their own calls, the frame NewPage returns
\* is the one the page table holds for the page id written to the
\* out-parameter, and it has that page id, pin-count 1, a clear dirty flag and
\* zero bytes, also when a dirty page was evicted for it.
C17_NewPageResult ==
  \A t \in Threads :
    bpm_threads[t].pc \in {"async_new", "async_old", "returned"} =>
      /\ page_table[bpm_threads[t].page_id] = bpm_threads[t].frame_id
      /\ pages[bpm_threads[t].frame_id] =
           [page_id_ |-> bpm_threads[t].page_id, pin_count_ |-> 1,
            is_dirty_ |-> FALSE, data_ |-> ZeroPage]

\* a NewPage that evicted a dirty page has returned while another thread is
\* inside its own NewPage
C17_Witness ==
  \E t, u \in Threads :
    /\ bpm_threads[t].pc = "returned" /\ bpm_threads[t].old_is_dirty
    /\ bpm_threads[u].pc \in {"async_new", "async_old"}

\* the thread is between its NewPage and its UnpinPage
InNewPageHelper(t) == bpm_threads[t].pc \in {"async_new", "async_old", "returned", "written"}

RECURSIVE MadeTotal(_)
MadeTotal(ts) ==
  IF ts = {} THEN 0
  ELSE LET t == CHOOSE u \in ts : TRUE
       IN  bpm_threads[t].made + MadeTotal(ts \ {t})

\* C20: threads that concurrently call NewPage, write their page and unpin
\* it dirty: no two calls receive the same page id, the ids handed out are
\* 0 .. n-1 for n successful calls, and once the threads have returned every
\* page that is in the pool, fetched back or never evicted, holds the bytes
\* its creator wrote.
C20_ConcurrentCreation ==
  /\ \A t, u \in Threads :
       (t # u /\ InNewPageHelper(t) /\ InNewPageHelper(u)) =>
         bpm_threads[t].page_id # bpm_threads[u].page_id
  /\ \A t \in Threads :
       InNewPageHelper(t) => bpm_threads[t].page_id \in 0 .. (next_page_id - 1)
  /\ next_page_id = MadeTotal(Threads)
  /\ AllJoined =>
       \A p \in PageIds : Resident(p) => pages[page_table[p]].data_ = PageBytes(p)

\* both threads created pages, and a page that was evicted came back with its
\* bytes before a worker had written them to the disk
C20_Witness ==
  /\ AllJoined
  /\ \A t \in Threads : bpm_threads[t].made > 0
  /\ \E p \in PageIds :
       /\ Resident(p) /\ p \in refetched
       /\ pages[page_table[p]].data_ = PageBytes(p)
       /\ disk[p] # PageBytes(p)

C19_DeletePage ==
  /\ [](\A p \in PageIds :
          (Resident(p) /\ pages[page_table[p]].pin_count_ = 0) =>
            ~RemoveThrows(replacer, page_table[p]))
  /\ [][\A p \in PageIds :
          (Resident(p) /\ pages[page_table[p]].pin_count_ = 0 /\ DeletePage(p)) =>
            /\ page_table' = [page_table EXCEPT ![p] = NoFrame]
            /\ free_list' = Append(free_list, page_table[p])
            /\ replacer' = Remove(replacer, page_table[p])
            /\ ~replacer'.node_store_[page_table[p]].present
            /\ pages' = [pages EXCEPT ![page_table[p]].page_id_ = INVALID_PAGE_ID,
                                      ![page_table[p]].pin_count_ = 0,
                                      ![page_table[p]].is_dirty_ = FALSE]]_vars
  /\ [][\A p \in PageIds :
          (Resident(p) /\ pages[page_table[p]].pin_count_ > 0) => page_table'[p] = page_table[p]]_vars
  /\ [][Len(free_list') > Len(free_list) => \E p \in PageIds : DeletePage(p)]_vars

\* every page id was handed out and every page that stayed in the pool was
\* deleted: all frames are on the free list, the last one freed has the reset
\* fields and no replacer node
C19_Witness ==
  \E p \in PageIds : \E f \in Frames :
    /\ p < next_page_id /\ ~Resident(p)
    /\ Len(free_list) = Cardinality(Frames) /\ free_list[Len(free_list)] = f
    /\ pages[f].page_id_ = INVALID_PAGE_ID /\ pages[f].pin_count_ = 0 /\ ~pages[f].is_dirty_
    /\ ~replacer.node_store_[f].present
    /\ next_page_id = PoolPages

\* the tracked frames whose evictable flag is set
Evictable(rep) ==
  {f \in Frames : rep.node_store_[f].present /\ rep.node_store_[f].is_evictable_}

\* the number of accesses recorded for a frame since it was tracked, as far
\* as k_ is concerned: the history keeps the last k_ of them
Accesses(rep, f) == Len(rep.node_store_[f].accessed_time_)

\* the timestamp of the k_-th most recent access of a frame with k_ accesses
KthRecent(rep, f) ==
  rep.node_store_[f].accessed_time_[Accesses(rep, f) - rep.k_ + 1]

LastAccess(rep, f) == rep.node_store_[f].accessed_time_[Accesses(rep, f)]

C22_InfiniteDistanceFirst ==
  (~replacer.aborted
     /\ \E f \in Evictable(replacer) : Accesses(replacer, f) < replacer.k_) =>
    /\ Evict(replacer).ok
    /\ Evict(replacer).frame \in Evictable(replacer)
    /\ Accesses(replacer, Evict(replacer).frame) < replacer.k_

\* an evictable frame that a Get access moved to the warm list is the victim
\* although an evictable frame with K accesses was last used before it
C22_Witness ==
  \E a, b \in Evictable(replacer) :
    /\ InList(replacer.warm_list_, a) /\ Accesses(replacer, a) < replacer.k_
    /\ Accesses(replacer, b) >= replacer.k_
    /\ LastAccess(replacer, b) < LastAccess(replacer, a)
    /\ Evict(replacer).frame = a

\* C23: Evict returns true only with a frame that is tracked and evictable at
\* the time of the call, and then the frame is no longer tracked: its node
\* with the access history is gone, it is in none of the lists, and the other
\* nodes are as they were; when no tracked frame is evictable Evict returns
\* false and leaves the replacer as it is.
C23_EvictOnlyEvictable ==
  ~replacer.aborted =>
    /\ Evict(replacer).ok =>
         /\ Evict(replacer).frame \in Evictable(replacer)
         /\ Evict(replacer).rep.node_store_ =
              [replacer.node_store_ EXCEPT ![Evict(replacer).frame] = NoNode]
         /\ ~InList(EvictOrder(Evict(replacer).rep), Evict(replacer).frame)
         /\ RecordAccess(Evict(replacer).rep, Evict(replacer).frame)
              .node_store_[Evict(replacer).frame].accessed_time_
              = <<replacer.current_timestamp_ + 1>>
    /\ Evictable(replacer) = {} =>
         /\ ~Evict(replacer).ok
         /\ Evict(replacer).rep = replacer

\* the first node Evict looks at is tracked but not evictable, and a later
\* node is evicted
C23_Witness ==
  /\ EvictOrder(replacer) # <<>>
  /\ FirstTracked(replacer, EvictOrder(replacer)) \notin Evictable(replacer)
  /\ Evict(replacer).ok
  /\ Accesses(replacer, Evict(replacer).frame) > 1

\* C24: after every RecordAccess, SetEvictable, Evict and Remove, Size() is the
\* number of tracked frames whose evictable flag is set; SetEvictable on an
\* untracked frame or to the value the flag has leaves Size() (and the whole
\* replacer) unchanged, and a frame that RecordAccess starts to track is not
\* counted.
C24_ReplacerSize ==
  ~replacer.aborted =>
    /\ Size(replacer) = Cardinality(Evictable(replacer))
    /\ \A f \in Frames, b \in BOOLEAN :
         (~replacer.node_store_[f].present \/ replacer.node_store_[f].is_evictable_ = b) =>
           SetEvictable(replacer, f, b) = replacer
    /\ \A f \in Frames, access_type \in AccessTypes :
         ~replacer.node_store_[f].present =>
           /\ Size(RecordAccessAs(replacer, f, access_type)) = Size(replacer)
           /\ f \notin Evictable(RecordAccessAs(replacer, f, access_type))

\* all frames are tracked and were used again and again: two evictable frames
\* are counted, the third one is tracked and not counted
C24_Witness ==
  /\ Size(replacer) = 2
  /\ \E f \in Frames : replacer.node_store_[f].present /\ ~replacer.node_store_[f].is_evictable_
  /\ \A f \in Frames : replacer.node_store_[f].present
  /\ \E f \in Frames : replacer.node_store_[f].present
                        /\ replacer.node_store_[f].accessed_time_[1] > ReplacerFrames

\* C25: a LockShared or LockExclusive call made by a REPEATABLE_READ
\* transaction that is SHRINKING (it has unlocked a lock) leaves the
\* transaction ABORTED when it returns and adds nothing to its lock sets,
\* whether or not the transaction holds a lock on the rid.
C25_TwoPhaseRule ==
  [][\A t \in Txns, r \in Rids :
       (/\ isolation[t] = "REPEATABLE_READ" /\ txn_state[t] = "SHRINKING"
        /\ lm_calls' = lm_calls + 1
        /\ LockShared(t, r) \/ (LockExclusive(t, r) /\ lm_pc'[t].at = "idle")) =>
         /\ txn_state'[t] = "ABORTED"
         /\ shared_set'[t] \subseteq shared_set[t]
         /\ excl_set'[t] \subseteq excl_set[t]]_vars

\* the request of txn t enters the queue of rid r in this step: it is new, or
\* LockUpgrade re-queued it in exclusive mode
Entered(t, r) ==
  LET q  == lock_table[r]
      q2 == lock_table'[r]
  IN  /\ Find(q2, t) <= Len(q2)
      /\ \/ Find(q, t) > Len(q)
         \/ q[Find(q, t)].lock_mode_ = "SHARED" /\ q2[Find(q2, t)].lock_mode_ = "EXCLUSIVE"

OtherRequests(q, t) == SelectSeq(q, LAMBDA x : x.txn_id_ # t)

\* the transactions whose request left the queue of rid r in this step
RemovedBy(t, r) ==
  {x \in Txns \ {t} : Find(lock_table[r], x) <= Len(lock_table[r])
                        /\ Find(lock_table'[r], x) > Len(lock_table'[r])}

\* C26: when a request R (new, or re-queued by an upgrade) enters a rid's
\* queue, the requests that leave the queue are requests of younger
\* transactions that conflict with R, and their transactions are ABORTED; no
\* younger conflicting request is left ahead of R; all other requests stay as
\* they were and in their order, and their transactions keep their state.
\* Once the exclusive request of T2 stands first in the queue (T2 waited
\* behind T1 and T1 has unlocked), T2 is granted the lock, unless it is
\* wounded itself.
C26_WoundRule ==
  /\ [][\A t \in Txns, r \in Rids :
          Entered(t, r) =>
            LET q    == lock_table[r]
                q2   == lock_table'[r]
                mode == q2[Find(q2, t)].lock_mode_
            IN  /\ OtherRequests(q2, t) =
                     SelectSeq(OtherRequests(q, t), LAMBDA x : x.txn_id_ \notin RemovedBy(t, r))
                /\ \A x \in RemovedBy(t, r) :
                     /\ t < x
                     /\ HasConflict(mode, q[Find(q, x)].lock_mode_)
                     /\ txn_state'[x] = "ABORTED"
                /\ \A i \in 1..(Find(q2, t) - 1) :
                     ~(t < q2[i].txn_id_ /\ HasConflict(mode, q2[i].lock_mode_))
                /\ \A x \in Txns \ RemovedBy(t, r) : txn_state'[x] = txn_state[x]]_vars
  /\ \A r \in Rids :
       (/\ lock_table[r] # <<>>
        /\ lock_table[r][1] = [txn_id_ |-> 2, lock_mode_ |-> "EXCLUSIVE", granted_ |-> FALSE])
         ~> (r \in excl_set[2] \/ txn_state[2] = "ABORTED")

\* T1 holds X on a rid, T3 waited for X and was wounded by the X request of
\* T2, which waits behind T1
C26_Witness ==
  \E r \in Rids :
    /\ lock_table[r] = <<[txn_id_ |-> 1, lock_mode_ |-> "EXCLUSIVE", granted_ |-> TRUE],
                         [txn_id_ |-> 2, lock_mode_ |-> "EXCLUSIVE", granted_ |-> FALSE]>>
    /\ txn_state[3] = "ABORTED" /\ lm_pc[3].rid = r /\ lm_pc[3].op = "LX"
    /\ lm_pc[2].at = "waiting"

\* C27: a LockUpgrade by a transaction that holds S on a rid, made while
\* another transaction waits inside its own LockUpgrade on that rid (the
\* upgrading slot is taken), fails and leaves the caller ABORTED, whichever of
\* the two transactions is the older one.
C27_UpgradeConflict ==
  [][\A t \in Txns, r \in Rids :
       (/\ IsSharedLocked(t, r) /\ ~IsExclusiveLocked(t, r)
        /\ txn_state[t] = "GROWING"
        /\ upgrading[r] \in Txns \ {t}
        /\ lm_pc[upgrading[r]].at = "waiting" /\ lm_pc[upgrading[r]].op = "LU"
        /\ lm_calls' = lm_calls + 1
        /\ LockUpgrade(t, r)) =>
         txn_state'[t] = "ABORTED"]_vars

\* the step is a call of txn t that ends in a throw of TransactionAbortException:
\* LOCKSHARED_ON_READ_UNCOMMITTED (line 33), LOCK_ON_SHRINKING (lines 37, 71,
\* 104), UPGRADE_CONFLICT (line 108), DEADLOCK (lines 47, 81, 122)
Throws(t) ==
  \/ \E r \in Rids :
       /\ LockShared(t, r) /\ lm_calls' = lm_calls + 1
       /\ ~IsSharedLocked(t, r) /\ ~IsExclusiveLocked(t, r) /\ txn_state[t] # "ABORTED"
       /\ isolation[t] = "READ_UNCOMMITTED" \/ txn_state[t] = "SHRINKING"
  \/ \E r \in Rids :
       /\ LockExclusive(t, r) /\ lm_calls' = lm_calls + 1
       /\ ~IsSharedLocked(t, r) /\ ~IsExclusiveLocked(t, r) /\ txn_state[t] = "SHRINKING"
  \/ \E r \in Rids :
       /\ (LockUpgrade(t, r) /\ lm_calls' = lm_calls + 1)
            \/ (LockExclusiveUpgrade(t) /\ lm_pc[t].rid = r /\ lm_pc'[t].at # "lx_gap")
       /\ IsSharedLocked(t, r) /\ ~IsExclusiveLocked(t, r) /\ txn_state[t] # "ABORTED"
       /\ txn_state[t] = "SHRINKING" \/ upgrading[r] # INVALID_TXN_ID
  \/ Wakeup(t) /\ txn_state[t] = "ABORTED" /\ lm_pc'[t].at # "woken"

\* C28: whenever a lock-manager call surfaces an abort, with whichever of the
\* four reasons, the transaction's state is ABORTED when the call is left and
\* the call has added no rid to the transaction's lock sets.
C28_AbortOutcomes ==
  [][\A t \in Txns :
       Throws(t) =>
         /\ txn_state'[t] = "ABORTED"
         /\ shared_set'[t] \subseteq shared_set[t]
         /\ excl_set'[t] \subseteq excl_set[t]]_vars

\* the keys stored in the leaves below page id
RECURSIVE KeysUnder(_, _)
KeysUnder(id, fuel) ==
  IF fuel = 0 \/ ~Live(tree_pages, id) THEN {}
  ELSE IF IsLeafPage(tree_pages[id])
  THEN {tree_pages[id].array[i].first : i \in 0 .. tree_pages[id].size - 1}
  ELSE UNION {KeysUnder(tree_pages[id].array[i].second, fuel - 1) :
                i \in 0 .. tree_pages[id].size - 1}

\* C29: while every call has returned, for every internal page of the tree
\* and every entry i > 0 all keys below child i are >= the key of entry i, and
\* for every entry i that has a successor all keys below child i are < the
\* key of entry i + 1.
C29_SeparatorKeys ==
  tree_status = "ok" =>
    \A id \in PagesBelow({root_page_id_}, MaxDepth) :
      (Live(tree_pages, id) /\ ~IsLeafPage(tree_pages[id])) =>
        \A i \in 0 .. tree_pages[id].size - 1 :
          \A key \in KeysUnder(tree_pages[id].array[i].second, MaxDepth) :
            /\ i > 0 => key >= tree_pages[id].array[i].first
            /\ i < tree_pages[id].size - 1 => key < tree_pages[id].array[i + 1].first

\* C30: a Remove changes root_page_id only when the root is an internal page
\* that is left with a single child, and then to that child's page id; and
\* while every call has returned, root_page_id names a live tree page from
\* which every key of the tree is reached.
C30_RootPointer ==
  /\ [][(tree_call'.op = "Remove" /\ tree_ops' = tree_ops + 1
           /\ root_page_id_' # root_page_id_) =>
          /\ Live(tree_pages, root_page_id_) /\ ~IsLeafPage(tree_pages[root_page_id_])
          /\ tree_pages'[root_page_id_].size = 1
          /\ root_page_id_' = tree_pages'[root_page_id_].array[0].second]_vars
  /\ [](tree_status = "ok" =>
          /\ Live(tree_pages, root_page_id_)
          /\ \A k \in Keys : tree_map[k] # NoVal => k \in KeysUnder(root_page_id_, MaxDepth))

\* C31: every Insert and every Remove of a single-threaded run returns: the
\* retry branches (leaf found full before the insert, non-root leaf found
\* under half before the remove) are never entered, because between calls no
\* leaf of the tree is full and no leaf but the root is under half.
C31_UpdatesReturn ==
  /\ tree_status # "hung"
  /\ tree_status = "ok" =>
       \A id \in PagesBelow({root_page_id_}, MaxDepth) :
         (Live(tree_pages, id) /\ IsLeafPage(tree_pages[id])) =>
           /\ ~IsFull(tree_pages[id])
           /\ id # root_page_id_ => ~UnderHalfFull(tree_pages[id])

\* the page whose latch the next fetch of thread t takes
Wanted(t) ==
  IF tree_threads[t].pc \in {"rd_header", "gv_header", "wr_header"}
  THEN header_page_id_ ELSE tree_threads[t].target

\* thread t is inside a FetchPageRead / FetchPageWrite that cannot return yet
Blocked(t) ==
  \/ /\ tree_threads[t].pc \in {"rd_header", "gv_header", "rd_page", "gv_page"}
     /\ Wanted(t) \in LatchIds /\ ~CanRLatch(Wanted(t))
  \/ /\ tree_threads[t].pc \in {"rd_leaf", "wr_header", "wr_page", "mg_sibling"}
     /\ Wanted(t) \in LatchIds /\ ~CanWLatch(Wanted(t))

\* thread u holds the latch of page id: as the writer, or through the
\* ReadPageGuard of its optimistic descent
Holds(u, id) == tree_latches[id].writer = u \/ tree_threads[u].guard = id

\* C32: there is never a set of calls each of which is blocked in a fetch
\* on a page latch that only calls of the set hold: the pessimistic passes
\* with their sibling latches and the read-latch crabbing of the optimistic
\* descents close no wait cycle.
C32_NoLatchDeadlock ==
  ~ \E D \in SUBSET Threads \ {{}} :
      \A t \in D :
        /\ Blocked(t)
        /\ \A u \in Threads : Holds(u, Wanted(t)) => u \in D

\* a Merge holds its parent and child latches and is about to latch the
\* sibling while the other call waits for a latch the Merge holds
C32_Witness ==
  \E u \in Threads, t \in Threads :
    /\ tree_threads[u].pc = "mg_sibling"
    /\ t # u /\ Blocked(t)
    /\ tree_latches[Wanted(t)].writer = u

\* C33: a step of the pessimistic Merge pass taken while the root is a leaf
\* changes neither that leaf nor the header's root_page_id and does not run
\* the code of another page type on the leaf, whatever concurrent removes did
\* to the tree before the pass latched the header.
C33_RootLeafExempt ==
  [][\A t \in Threads :
       (/\ tree_threads[t].op = "Remove"
        /\ tree_threads[t].pc \in {"wr_page", "mg_turn", "mg_sibling"}
        /\ tree_threads'[t] # tree_threads[t]
        /\ Live(tree_pages, root_page_id_)
        /\ IsLeafPage(tree_pages[root_page_id_])) =>
         /\ root_page_id_' = root_page_id_
         /\ tree_pages'[root_page_id_] = tree_pages[root_page_id_]
         /\ tree_status' = "ok"]_vars

\* the depths (number of internal pages above them) of the leaves below id
RECURSIVE LeafDepths(_, _, _)
LeafDepths(id, depth, fuel) ==
  IF ~Live(tree_pages, id) \/ fuel = 0 THEN {-1}
  ELSE IF IsLeafPage(tree_pages[id]) THEN {depth}
  ELSE UNION {LeafDepths(tree_pages[id].array[i].second, depth + 1, fuel - 1) :
                i \in 0 .. tree_pages[id].size - 1}

\* C34: while every call has returned, all leaves are at one depth and the
\* depth stored in the header page is that depth (a tree that is a single
\* root leaf has depth 0, the value the header of a new tree holds).
C34_TreeDepth ==
  tree_status = "ok" => LeafDepths(root_page_id_, 0, MaxDepth) = {tree_depth_}

\* C35: a thread that FetchPage has handed page p in frame f (a hit on a
\* frame another thread's miss installed included) finds p's request served
\* and p's bytes in the frame, never the bytes of the page held there before.
C35_FetchWaitsForLoad ==
  \A t \in Threads :
    bpm_threads[t].pc = "fetched" =>
      /\ pages[bpm_threads[t].frame_id].page_id_ = bpm_threads[t].page_id
      /\ ~disk_requests[bpm_threads[t].page_id].need_read_
      /\ pages[bpm_threads[t].frame_id].data_ = PageBytes(bpm_threads[t].page_id)

\* one thread's hit has returned while the thread whose miss installed the
\* page has not yet called ExecuteRead
C35_Witness ==
  \E t \in Threads, u \in Threads :
    /\ bpm_threads[t].pc = "fetched"
    /\ bpm_threads[u].pc = "read"
    /\ bpm_threads[u].page_id = bpm_threads[t].page_id

\* C36: the disk manager's WritePage is called only by a step that runs
\* without the buffer pool's latch_, a worker of the disk scheduler running
\* its task; no step of a buffer-pool operation, which holds latch_ from its
\* first line, changes the file.
C36_NoDiskWriteUnderLatch ==
  [][disk' # disk => \E w \in Workers : worker[w] # NoTask /\ worker'[w] = NoTask]_vars

\* in how many of the three lists, and how often, frame f is linked
Linked(rep, f) ==
  Len(SelectSeq(rep.cold_list_ \o rep.warm_list_ \o rep.hot_list_, LAMBDA g : g = f))

\* C37: after every replacer operation, for every k >= 1 and every mix of
\* access types, a tracked frame is linked in exactly one of cold_list_,
\* warm_list_ and hot_list_ and an untracked frame in none; a frame is in
\* hot_list_ exactly when it has at least k_ recorded accesses, and its
\* history holds at most k_ timestamps.
C37_ListMembership ==
  \A f \in Frames :
    LET node == replacer.node_store_[f]
    IN  /\ Linked(replacer, f) = IF node.present THEN 1 ELSE 0
        /\ InList(replacer.hot_list_, f) <=>
             (node.present /\ Len(node.accessed_time_) >= replacer.k_)
        /\ Len(node.accessed_time_) <= replacer.k_

\* C38: once a transaction's abort has surfaced (it is ABORTED and its lock
\* call has returned or thrown), none of its requests is left waiting in a
\* rid's queue, where it would stand in front of later requests for ever.
C38_NoAbortedWaiter ==
  \A t \in Txns, r \in Rids :
    (txn_state[t] = "ABORTED" /\ At(t, "idle")) =>
      \A i \in 1 .. Len(lock_table[r]) :
        lock_table[r][i].txn_id_ = t => lock_table[r][i].granted_

\* C39: the upgrading slot of a rid names a transaction exactly while that
\* transaction is inside the wait of LockUpgrade on that rid: it is empty once
\* the upgrade is granted and once the upgrader has left with DEADLOCK, so
\* that UPGRADE_CONFLICT is thrown only while another upgrade is in progress.
C39_UpgraderSlot ==
  \A r \in Rids, t \in Txns :
    upgrading[r] = t <=>
      (lm_pc[t].op = "LU" /\ lm_pc[t].rid = r /\ ~At(t, "idle") /\ ~At(t, "lx_gap"))

\* position of txn's request in the queue q, 0 when it has none
PositionOf(q, txn) == IF Find(q, txn) <= Len(q) THEN Find(q, txn) ELSE 0

\* C40: in every step and for every rid, two requests that are in the rid's
\* queue before and after the step keep their relative order: no operation,
\* the re-queueing of LockUpgrade included, leaves a request ahead of a
\* request (granted or waiting) that was ahead of it before.
C40_PerRidFifo ==
  [][\A r \in Rids, t \in Txns, u \in Txns :
       (/\ PositionOf(lock_table[r], t) > 0 /\ PositionOf(lock_table[r], u) > 0
        /\ PositionOf(lock_table'[r], t) > 0 /\ PositionOf(lock_table'[r], u) > 0
        /\ PositionOf(lock_table[r], u) < PositionOf(lock_table[r], t)) =>
         PositionOf(lock_table'[r], u) < PositionOf(lock_table'[r], t)]_vars

====
